---- MODULE Spec2Model ----
(***************************************************************************)
(* Model of the live-trading orchestration core of DC-TRADE-ENGINE:        *)
(* BotManager (dashboard/bot_manager.py) and the LiveTradingEngine loop it *)
(* drives (trading/engine.py, data/pionex_ws.py).                          *)
(*                                                                         *)
(* Coroutines are cut at their await points: one action is the code that   *)
(* runs between two suspensions of one coroutine.                          *)
(***************************************************************************)
EXTENDS Integers, Sequences, FiniteSets, TLC

VARIABLES
    bots,               \* BotManager._bots: bot_id -> BotConfig
    running_tasks,      \* BotManager._running_tasks: bot_id -> task id
    running_engines,    \* BotManager._running_engines: bot_id -> engine id
    webhook_executors,  \* BotManager._webhook_executors: bot_id -> executor kind
    webhook_positions,  \* BotManager._webhook_positions: bot_id -> position dict
    pending_restart,    \* BotManager._pending_restart
    db_client,          \* BotManager._db_client is set (TRUE) or None (FALSE)
    json_store,         \* contents of data/bots.json: bot_id -> row
    db_store,           \* contents of the Supabase table "bots": bot_id -> row
    id_count,           \* number of ids uuid4() has handed out so far
    engines,            \* LiveTradingEngine objects alive: engine id -> state
    tasks,              \* asyncio tasks running _run_bot: task id -> state
    detached,           \* BotConfig objects deleted from _bots but still held by a coroutine
    stopping,           \* stop_bot calls suspended in `await engine.stop()`
    boot,               \* position of the startup sequence (app.py startup())
    on_trade_defined,   \* whether the engine class offers on_trade()
    lib,                \* a trading/*.py object built and driven on its own
    ret                 \* the last call that returned: operation, arguments, result

vars == <<bots, running_tasks, running_engines, webhook_executors,
          webhook_positions, pending_restart, db_client, json_store, db_store,
          id_count, engines, tasks, detached, stopping, boot, on_trade_defined,
          lib, ret>>

----------------------------------------------------------------------------
(* Bounds *)

\* number of CreateBot calls explored
NumBots == 1

\* engine objects alive at the same time (LoopSpec)
MaxRuns == 1

\* round trips one engine completes (LoopSpec, EvalSpec)
MaxTrades == 1

\* Trades one webhook bot records (WebhookSpec)
MaxSignals == 2

\* trades one PositionManager records (PositionSpec)
MaxCloses == 2

\* update() calls between two resets of one RiskManager (RiskSpec)
MaxUpdates == 3

\* engine objects alive at the same time (RaceSpec)
MaxStarts == 2

\* subscriptions issued on one stream (StreamSpec)
MaxSubscriptions == 2

\* the wall clock, in seconds, at which a candle loop is started and the last
\* second it is followed to (PeriodSpec)
ClockStart == 600

MaxClock == 900

\* Trades one bot completes (HistorySpec)
MaxHistory == 51

\* orders one PaperExecutor numbers (PaperSpec) and one PionexExecutor is
\* asked to place (LiveSpec)
MaxOrders == 3

----------------------------------------------------------------------------
(* Small helpers for Python dicts *)

Put(f, k, v) == [x \in DOMAIN f \cup {k} |-> IF x = k THEN v ELSE f[x]]

Pop(f, k) == [x \in DOMAIN f \ {k} |-> f[x]]

EmptyMap == [x \in {} |-> 0]

\* Optional[float]: <<>> is None, <<v>> is the value v
None == <<>>

----------------------------------------------------------------------------
(* Python floats as exact fractions <<numerator, denominator>> in lowest    *)
(* terms with a positive denominator.  The prices, balances and percentages *)
(* explored are small integers.  Where a double the code compares differs   *)
(* from the exact value (100 * (1 + 0.1) is 110.00000000000001), the side   *)
(* on which it lies is tabulated next to the operator that compares it.     *)

Abs(i) == IF i < 0 THEN -i ELSE i

RECURSIVE Gcd(_, _)
Gcd(a, b) == IF b = 0 THEN a ELSE Gcd(b, a % b)

Frac(n, d) ==
    LET g == Gcd(Abs(n), Abs(d))
        sg == IF d < 0 THEN -1 ELSE 1
    IN <<(sg * n) \div g, (sg * d) \div g>>

F(i) == <<i, 1>>

FAdd(x, y) == Frac(x[1] * y[2] + y[1] * x[2], x[2] * y[2])

FSub(x, y) == Frac(x[1] * y[2] - y[1] * x[2], x[2] * y[2])

FMul(x, y) == Frac(x[1] * y[1], x[2] * y[2])

\* x / y for y # 0 (the callers test the divisor as the code does)
FDiv(x, y) == Frac(x[1] * y[2], x[2] * y[1])

FLe(x, y) == x[1] * y[2] <= y[1] * x[2]

FLt(x, y) == x[1] * y[2] < y[1] * x[2]

\* round(x, digits): to the nearest multiple of 10^-digits, ties to even
Round(x, digits) ==
    LET scale == 10 ^ digits
        n == x[1] * scale
        q == n \div x[2]
        twice == 2 * (n - q * x[2])
        up == twice > x[2] \/ (twice = x[2] /\ q % 2 = 1)
    IN Frac(IF up THEN q + 1 ELSE q, scale)

----------------------------------------------------------------------------
(* Input domains *)

\* callers: "" is the default user_id (no authenticated user)
Users == {"", "u1", "u2"}

\* strategies known to strategies/registry.py after auto_discover()
Registry == {"ma_crossover"}

\* values Timeframe(...) accepts
Timeframes == {"1m", "5m", "15m", "30m", "1h", "4h", "1d"}

\* API keys a caller may pass to start_bot
ApiKeys == {"", "your_api_key_here", "k1"}

Now == "t1"

----------------------------------------------------------------------------
(* BotConfig and its persisted form *)

BotConfig(bot_id) ==
    [bot_id |-> bot_id, user_id |-> "", name |-> "", strategy |-> "",
     symbol |-> "", timeframe |-> "", capital |-> 10000, params |-> "",
     paper_mode |-> TRUE, sl_pct |-> None, tp_pct |-> None,
     max_drawdown_pct |-> 20, created_at |-> "", status |-> "stopped",
     signal_source |-> "strategy", webhook_token |-> "",
     total_pnl |-> F(0), total_trades |-> 0, win_rate |-> F(0),
     last_signal |-> "", last_signal_time |-> "", trade_history |-> <<>>,
     error_msg |-> "", auto_start |-> FALSE]

BotFields == DOMAIN BotConfig(0)

Last50(s) == IF Len(s) > 50 THEN SubSeq(s, Len(s) - 49, Len(s)) ELSE s

\* the row written for a bot: no created_at, error_msg blanked, history cut
RowFields == BotFields \ {"created_at"}

bot_to_row(bot) ==
    [f \in RowFields |->
        IF f = "error_msg" THEN ""
        ELSE IF f = "trade_history" THEN Last50(bot.trade_history)
        ELSE bot[f]]

\* keys _row_to_bot fills in when the row lacks them
RowDefaults ==
    [user_id |-> "", signal_source |-> "strategy", webhook_token |-> "",
     trade_history |-> <<>>, error_msg |-> "", max_drawdown_pct |-> 20,
     total_pnl |-> F(0), total_trades |-> 0, win_rate |-> F(0),
     last_signal |-> "",
     last_signal_time |-> "", created_at |-> "", auto_start |-> FALSE]

row_to_bot(row) ==
    [f \in BotFields |->
        IF f \in DOMAIN row THEN row[f]
        ELSE IF f \in DOMAIN RowDefaults THEN RowDefaults[f]
        ELSE BotConfig(row.bot_id)[f]]

----------------------------------------------------------------------------
(* Persistence *)

\* _save_bots_json: the file is rewritten from every bot in memory
SavedJson(bs) == [b \in DOMAIN bs |-> bot_to_row(bs[b])]

\* _save_one_bot: upsert one row when a DB client is set; the file is rewritten
SavedDbOne(bot) ==
    IF db_client THEN Put(db_store, bot.bot_id, bot_to_row(bot)) ELSE db_store

\* _delete_bot_db
DeletedDb(bot_id) == IF db_client THEN Pop(db_store, bot_id) ELSE db_store

\* what a step reports: the call, its result, the return statement taken
\* (cause), and the status and owner the bot had when the call was made
Returned(op, bot_id, user, result, cause) ==
    [op |-> op, bot |-> bot_id, user |-> user, result |-> result, cause |-> cause,
     was |-> IF bot_id \in DOMAIN bots THEN bots[bot_id].status ELSE "",
     owner |-> IF bot_id \in DOMAIN bots THEN bots[bot_id].user_id ELSE ""]

\* boot once startup() has returned and requests are served
Serving == [pc |-> "serving", queue |-> <<>>, i |-> 0, key |-> "",
            restarted |-> <<>>, failed |-> <<>>, log |-> <<>>]

\* a step that ends in a suspension, not in a return
Suspended == Returned("await", 0, "", "None", "")

----------------------------------------------------------------------------
(* CRUD *)

\* arguments create_bot is called with (api_create_bot)
CreateArgs(user_id, signal_source, paper_mode) ==
    [name |-> "n", strategy |-> "ma_crossover", symbol |-> "BTC_USDT",
     timeframe |-> "1h", capital |-> 1000, params |-> "p",
     paper_mode |-> paper_mode, sl_pct |-> None, tp_pct |-> None,
     user_id |-> user_id, signal_source |-> signal_source]

CreateInputs ==
    {CreateArgs("u1", "strategy", TRUE), CreateArgs("", "strategy", TRUE),
     CreateArgs("u1", "webhook", TRUE)}

LoopCreateInputs ==
    {CreateArgs("", "strategy", TRUE), CreateArgs("", "strategy", FALSE)}

CreateBot(a) ==
    /\ LET bot_id == id_count + 1
           bot == [BotConfig(bot_id) EXCEPT
                     !.user_id = a.user_id, !.name = a.name,
                     !.strategy = IF a.strategy = "" THEN "webhook" ELSE a.strategy,
                     !.symbol = a.symbol, !.timeframe = a.timeframe,
                     !.capital = a.capital, !.params = a.params,
                     !.paper_mode = a.paper_mode, !.sl_pct = a.sl_pct,
                     !.tp_pct = a.tp_pct, !.signal_source = a.signal_source,
                     !.webhook_token = IF a.signal_source = "webhook"
                                       THEN "tok" \o ToString(bot_id) ELSE "",
                     !.created_at = Now]
       IN /\ id_count' = bot_id
          /\ bots' = Put(bots, bot_id, bot)
          /\ db_store' = SavedDbOne(bot)
          /\ json_store' = SavedJson(bots')
          /\ ret' = Returned("create_bot", bot_id, a.user_id, "bot", "ok")
    /\ UNCHANGED <<running_tasks, running_engines, webhook_executors,
                   webhook_positions, pending_restart, db_client, engines,
                   tasks, detached, stopping, boot, on_trade_defined, lib>>

\* the `user_id and bot.user_id and bot.user_id != user_id` test
NotOwner(bot, user_id) ==
    user_id # "" /\ bot.user_id # "" /\ bot.user_id # user_id

\* delete_bot / update_bot without the test of the status
CrudCause_NoRunningTest(bot_id, user_id) ==
    IF bot_id \notin DOMAIN bots THEN "not_found"
    ELSE IF NotOwner(bots[bot_id], user_id) THEN "not_owner"
    ELSE "ok"

\* which return statement of delete_bot / update_bot is taken
CrudCause(bot_id, user_id) ==
    IF bot_id \notin DOMAIN bots THEN "not_found"
    ELSE IF NotOwner(bots[bot_id], user_id) THEN "not_owner"
    ELSE IF bots[bot_id].status = "running" THEN "running"
    ELSE "ok"

\* a suspended stop_bot or a live _run_bot still refers to the BotConfig object
CoroutineHolds(bot_id) ==
    \/ \E c \in stopping : c.bot = bot_id
    \/ \E t \in DOMAIN tasks :
          tasks[t].bot = bot_id /\ tasks[t].bot_held /\ tasks[t].pc # "done"

DeleteResult(cause) == IF cause = "ok" THEN "True" ELSE "False"

UpdateResult(cause) == IF cause = "ok" THEN "bot" ELSE "None"

DeleteBot(bot_id, user_id) ==
    LET cause == CrudCause(bot_id, user_id) IN
    /\ ret' = Returned("delete_bot", bot_id, user_id, DeleteResult(cause), cause)
    /\ IF cause = "ok"
       THEN /\ bots' = Pop(bots, bot_id)
            /\ db_store' = DeletedDb(bot_id)
            /\ json_store' = SavedJson(bots')
            /\ detached' = IF CoroutineHolds(bot_id)
                           THEN Put(detached, bot_id, bots[bot_id]) ELSE detached
       ELSE UNCHANGED <<bots, db_store, json_store, detached>>
    /\ UNCHANGED <<running_tasks, running_engines, webhook_executors,
                   webhook_positions, pending_restart, db_client, id_count,
                   engines, tasks, stopping, boot, on_trade_defined, lib>>

Allowed == {"name", "strategy", "symbol", "timeframe", "capital", "params",
            "paper_mode", "sl_pct", "tp_pct"}

\* **updates: the keys passed and the value given for each
UpdateInputs ==
    { [keys |-> {"paper_mode", "status", "auto_start"},
       vals |-> [BotConfig(0) EXCEPT !.paper_mode = FALSE, !.status = "running",
                                     !.auto_start = TRUE]] }

UpdateBot(bot_id, user_id, updates) ==
    LET cause == CrudCause(bot_id, user_id) IN
    /\ ret' = Returned("update_bot", bot_id, user_id, UpdateResult(cause), cause)
    /\ IF cause = "ok"
       THEN LET bot == [f \in BotFields |->
                          IF f \in updates.keys \cap Allowed
                          THEN updates.vals[f] ELSE bots[bot_id][f]]
            IN /\ bots' = Put(bots, bot_id, bot)
               /\ db_store' = SavedDbOne(bot)
               /\ json_store' = SavedJson(bots')
       ELSE UNCHANGED <<bots, db_store, json_store>>
    /\ UNCHANGED <<running_tasks, running_engines, webhook_executors,
                   webhook_positions, pending_restart, db_client, id_count,
                   engines, tasks, detached, stopping, boot, on_trade_defined, lib>>

----------------------------------------------------------------------------
(* RiskManager, PositionManager and the executors (trading/*.py)           *)

\* RiskConfig.max_position_pct
MaxPositionPct == 95

\* RiskManager(config, initial_capital)
NewRisk(max_drawdown_pct, sl_pct, tp_pct, initial_capital) ==
    [max_drawdown_pct |-> max_drawdown_pct, sl_pct |-> sl_pct, tp_pct |-> tp_pct,
     initial_capital |-> F(initial_capital),
     peak_capital |-> F(initial_capital), halted |-> FALSE]

\* (current_capital, peak_capital) for which the double
\* (1 - current_capital / peak_capital) * 100 lies below the exact value
DrawdownBelow == {<<8000, 10000>>, <<9000, 10000>>, <<7000, 12000>>,
                  <<10000, 12000>>}

\* ... and above it
DrawdownAbove == {<<7000, 10000>>, <<8000, 12000>>}

\* sign of (double - exact) for drawdown_pct
DrawdownErr(current_capital, peak) ==
    LET key == <<current_capital[1], peak[1]>>
        whole == current_capital[2] = 1 /\ peak[2] = 1
    IN IF whole /\ key \in DrawdownAbove THEN 1
       ELSE IF whole /\ key \in DrawdownBelow THEN -1 ELSE 0

\* RiskManager.update(current_capital)
RiskUpdate_FromInitial(rm, current_capital) ==
    LET peak == IF FLt(rm.peak_capital, current_capital) THEN current_capital
                ELSE rm.peak_capital
        drawdown_pct == FMul(FSub(F(1), FDiv(current_capital, rm.initial_capital)),
                             F(100))
        limit == F(rm.max_drawdown_pct)
        reached == \/ FLt(limit, drawdown_pct)
                   \/ limit = drawdown_pct
                      /\ DrawdownErr(current_capital, rm.initial_capital) >= 0
    IN [rm EXCEPT !.peak_capital = peak, !.halted = @ \/ reached]

RiskUpdate(rm, current_capital) ==
    LET peak == IF FLt(rm.peak_capital, current_capital) THEN current_capital
                ELSE rm.peak_capital
        drawdown_pct == FMul(FSub(F(1), FDiv(current_capital, peak)), F(100))
        limit == F(rm.max_drawdown_pct)
        reached == \/ FLt(limit, drawdown_pct)
                   \/ limit = drawdown_pct /\ DrawdownErr(current_capital, peak) >= 0
    IN [rm EXCEPT !.peak_capital = peak, !.halted = @ \/ reached]

\* RiskManager.calculate_position_size(capital, price)
calculate_position_size(capital, price) ==
    FDiv(FMul(capital, Frac(MaxPositionPct, 100)), price)

\* (entry_price, pct, dir) for which the double entry_price * (1 + dir * pct / 100)
\* lies above the exact product
ProductAbove == {<<70, 2, 1>>, <<100, 10, 1>>, <<110, 2, 1>>, <<110, 10, 1>>}

\* ... and below it
ProductBelow == {<<70, 2, -1>>, <<110, 2, -1>>}

\* sign of (double - exact) for entry_price * (1 + dir * pct / 100)
ProductErr(entry_price, pct, dir) ==
    LET key == <<entry_price[1], pct, dir>>
        whole == entry_price[2] = 1
    IN IF whole /\ key \in ProductAbove THEN 1
       ELSE IF whole /\ key \in ProductBelow THEN -1 ELSE 0

\* current_price <= entry_price * (1 + dir * pct / 100), compared as doubles
AtMost(current_price, entry_price, pct, dir) ==
    LET exact == FMul(entry_price, FAdd(F(1), Frac(dir * pct, 100)))
    IN \/ FLt(current_price, exact)
       \/ current_price = exact /\ ProductErr(entry_price, pct, dir) >= 0

\* current_price >= entry_price * (1 + dir * pct / 100), compared as doubles
AtLeast(current_price, entry_price, pct, dir) ==
    LET exact == FMul(entry_price, FAdd(F(1), Frac(dir * pct, 100)))
    IN \/ FLt(exact, current_price)
       \/ current_price = exact /\ ProductErr(entry_price, pct, dir) <= 0

\* RiskManager.check_stop_loss(entry_price, current_price, side)
check_stop_loss_LongOnly(rm, entry_price, current_price, side) ==
    IF rm.sl_pct = None THEN FALSE
    ELSE AtMost(current_price, entry_price, rm.sl_pct[1], -1)

check_stop_loss(rm, entry_price, current_price, side) ==
    IF rm.sl_pct = None THEN FALSE
    ELSE IF side = "long"
    THEN AtMost(current_price, entry_price, rm.sl_pct[1], -1)
    ELSE AtLeast(current_price, entry_price, rm.sl_pct[1], 1)

\* RiskManager.check_take_profit(entry_price, current_price, side)
check_take_profit(rm, entry_price, current_price, side) ==
    IF rm.tp_pct = None THEN FALSE
    ELSE IF side = "long"
    THEN AtLeast(current_price, entry_price, rm.tp_pct[1], 1)
    ELSE AtMost(current_price, entry_price, rm.tp_pct[1], -1)

\* RiskManager.reset()
RiskReset_KeepsPeak(rm) == [rm EXCEPT !.halted = FALSE]

RiskReset(rm) == [rm EXCEPT !.halted = FALSE, !.peak_capital = rm.initial_capital]

\* no trading/*.py object is driven on its own
NoLib == [kind |-> "none"]

\* PositionManager._positions has no entry for the symbol
Flat == [side |-> "none", entry_price |-> F(0), size |-> F(0),
         unrealized_pnl |-> F(0)]

\* PositionManager.open_position: the Position stored for the symbol
open_position(side, entry_price, size) ==
    [side |-> side, entry_price |-> entry_price, size |-> size,
     unrealized_pnl |-> F(0)]

\* PositionManager.close_position: the trade appended to the history
ClosedTrade(pos, exit_price) ==
    LET diff == IF pos.side = "long" THEN FSub(exit_price, pos.entry_price)
                ELSE FSub(pos.entry_price, exit_price)
    IN [side |-> pos.side, entry_price |-> pos.entry_price,
        exit_price |-> exit_price, size |-> pos.size,
        pnl_pct |-> Round(FMul(FDiv(diff, pos.entry_price), F(100)), 2),
        pnl_usd |-> Round(FMul(diff, pos.size), 4)]

\* PositionManager.update_unrealized_pnl
update_unrealized_pnl(pos, current_price) ==
    IF pos.side = "none" THEN pos
    ELSE LET diff == IF pos.side = "long"
                     THEN FSub(current_price, pos.entry_price)
                     ELSE FSub(pos.entry_price, current_price)
         IN [pos EXCEPT !.unrealized_pnl =
                           FMul(FDiv(diff, pos.entry_price), F(100))]

\* PaperExecutor(initial_balance): no price is known for any symbol; set_price
\* is called nowhere in the program
NewPaper(initial_balance) ==
    [quote |-> F(initial_balance), base |-> F(0), price |-> F(0),
     order_counter |-> 0, orders |-> <<>>,
     position |-> [side |-> "none", size |-> F(0), entry_price |-> F(0)]]

\* PaperExecutor.place_market_order raises
PaperRaises_BuyUnchecked(x, side, size) ==
    \/ FLe(x.price, F(0))
    \/ side = "SELL" /\ FLt(x.base, size)

PaperRaises(x, side, size) ==
    LET cost == FMul(size, x.price)
        fee == FMul(cost, Frac(5, 10000))
    IN \/ FLe(x.price, F(0))
       \/ side = "BUY" /\ FLt(x.quote, FAdd(cost, fee))
       \/ side = "SELL" /\ FLt(x.base, size)

\* PaperExecutor._update_position
\* _update_position that drops the position on any closing order
PaperPosition_DropsOnAnyClose(pos, side, size, price) ==
    IF pos.side = "none"
    THEN [side |-> IF side = "BUY" THEN "long" ELSE "short", size |-> size,
          entry_price |-> price]
    ELSE IF (pos.side = "long" /\ side = "SELL") \/ (pos.side = "short" /\ side = "BUY")
    THEN [side |-> "none", size |-> F(0), entry_price |-> F(0)]
    ELSE LET total_cost == FAdd(FMul(pos.entry_price, pos.size), FMul(price, size))
             total == FAdd(pos.size, size)
         IN [pos EXCEPT !.size = total, !.entry_price = FDiv(total_cost, total)]

PaperPosition(pos, side, size, price) ==
    IF pos.side = "none"
    THEN [side |-> IF side = "BUY" THEN "long" ELSE "short", size |-> size,
          entry_price |-> price]
    ELSE IF (pos.side = "long" /\ side = "SELL") \/ (pos.side = "short" /\ side = "BUY")
    THEN IF FLe(pos.size, size)
         THEN [side |-> "none", size |-> F(0), entry_price |-> F(0)]
         ELSE [pos EXCEPT !.size = FSub(@, size)]
    ELSE LET total_cost == FAdd(FMul(pos.entry_price, pos.size), FMul(price, size))
             total == FAdd(pos.size, size)
         IN [pos EXCEPT !.size = total, !.entry_price = FDiv(total_cost, total)]

\* PaperExecutor.place_market_order when it does not raise
PaperFilled(x, side, size) ==
    LET cost == FMul(size, x.price)
        fee == FMul(cost, Frac(5, 10000))
    IN [x EXCEPT
          !.order_counter = @ + 1,
          !.orders = Append(@, [orderId |-> x.order_counter + 1, side |-> side,
                                size |-> size, price |-> x.price, fee |-> fee,
                                status |-> "FILLED"]),
          !.quote = IF side = "BUY" THEN FSub(FSub(@, cost), fee)
                    ELSE FSub(FAdd(@, cost), fee),
          !.base = IF side = "BUY" THEN FAdd(@, size) ELSE FSub(@, size),
          !.position = PaperPosition(@, side, size, x.price)]

\* PaperExecutor.place_market_order when it raises: the order counter has
\* been advanced once a price was found
PaperFailed(x) ==
    IF FLe(x.price, F(0)) THEN x ELSE [x EXCEPT !.order_counter = @ + 1]

----------------------------------------------------------------------------
(* Engine and task objects *)

\* no evaluation is suspended
NoLocal == [kind |-> "none", reason |-> "none", price |-> F(0), side |-> "none",
            size |-> F(0)]

\* LiveTradingEngine.__init__: not running, no stream, empty position table.
\* ws: "none" (engine._ws is None), "new" (PionexWebSocket() not connected),
\*     "open" (connected, ws._running), "closed" (ws._running is False)
\* cpc: where the _candle_loop sub-task is; local: its local variables while
\* it is suspended inside _evaluate_signals; trade_price: the price of the
\* trade message _on_trade is handling while it is suspended; paper: the
\* PaperExecutor (unused when the executor is a PionexExecutor)
NewEngine(bot, executor) ==
    [bot |-> bot.bot_id, executor |-> executor, running |-> FALSE,
     ws |-> "none", callback |-> FALSE, cpc |-> "none", position |-> Flat,
     history |-> <<>>, candles |-> 0,
     risk |-> NewRisk(bot.max_drawdown_pct, bot.sl_pct, bot.tp_pct, bot.capital),
     paper |-> NewPaper(IF executor = "paper" THEN bot.capital ELSE 0),
     local |-> NoLocal, trade_price |-> F(0)]

\* asyncio.create_task(self._run_bot(...)): scheduled, body not entered yet
NewTask(bot_id) ==
    [bot |-> bot_id, pc |-> "created", cancel |-> FALSE, bot_held |-> FALSE]

FreshId(f) == CHOOSE i \in 1..(Cardinality(DOMAIN f) + 1) : i \notin DOMAIN f

Range(f) == {f[x] : x \in DOMAIN f}

\* a finished task object goes away once _running_tasks no longer holds it
LiveTasks(tks, rtks) ==
    [t \in {x \in DOMAIN tks : tks[x].pc # "done" \/ x \in Range(rtks)} |-> tks[t]]

\* an engine object stays alive while the registry, a stop call, its task or
\* its candle loop holds it
Held(e, engs, reng, tks, stp) ==
    \/ e \in Range(reng)
    \/ \E c \in stp : c.engine = e
    \/ e \in DOMAIN tks /\ tks[e].pc # "done"
    \/ engs[e].cpc \notin {"none", "done"}

Collect(engs, reng, tks, stp) ==
    [e \in {x \in DOMAIN engs : Held(x, engs, reng, tks, stp)} |-> engs[e]]

----------------------------------------------------------------------------
(* Start / Stop *)

\* how far start_bot gets before it returns
StartCause(bot, key) ==
    IF bot.strategy \notin Registry THEN "strategy_not_found"
    ELSE IF ~bot.paper_mode /\ bot.symbol = "BTC_USDT_PERP" THEN "perp_live"
    ELSE IF ~bot.paper_mode /\ key \in {"", "your_api_key_here"} THEN "no_api_key"
    ELSE IF bot.timeframe \notin Timeframes THEN "invalid_timeframe"
    ELSE IF ~on_trade_defined THEN "no_on_trade"
    ELSE "ok"

\* the causes raised after `bot.status = "running"` (bot_manager.py:370-373)
AfterWiring == {"no_on_trade"}

\* (the caller says what becomes of boot: start_bot does not touch it)
StartBot(bot_id, key) ==
    IF bot_id \notin DOMAIN bots \/ bots[bot_id].status = "running"
    THEN /\ ret' = Returned("start_bot", bot_id, "", "False",
                     IF bot_id \notin DOMAIN bots THEN "not_found" ELSE "running")
         /\ UNCHANGED <<bots, running_tasks, running_engines, webhook_executors,
                        webhook_positions, pending_restart, db_client,
                        json_store, db_store, id_count, engines, tasks,
                        detached, stopping, on_trade_defined, lib>>
    ELSE LET bot == bots[bot_id]
             cause == StartCause(bot, key)
             e == FreshId([x \in DOMAIN engines \cup DOMAIN tasks |-> 0])
             engine == NewEngine(bot, IF bot.paper_mode THEN "paper" ELSE "live")
             wired == cause = "ok" \/ cause \in AfterWiring
             bot2 == IF cause = "ok"
                     THEN [bot EXCEPT !.status = "running", !.error_msg = "",
                                      !.auto_start = TRUE]
                     ELSE IF cause \in AfterWiring
                     THEN [bot EXCEPT !.status = "error", !.error_msg = cause,
                                      !.auto_start = TRUE]
                     ELSE [bot EXCEPT !.status = "error", !.error_msg = cause]
             reng == IF wired THEN Put(running_engines, bot_id, e)
                     ELSE running_engines
             tks == IF cause = "ok" THEN Put(tasks, e, NewTask(bot_id)) ELSE tasks
             engs == IF wired
                     THEN Put(engines, e,
                              [engine EXCEPT !.callback = (cause = "ok")])
                     ELSE engines
         IN /\ bots' = Put(bots, bot_id, bot2)
            /\ running_engines' = reng
            /\ running_tasks' = IF cause = "ok" THEN Put(running_tasks, bot_id, e)
                                ELSE running_tasks
            /\ tasks' = LiveTasks(tks, running_tasks')
            /\ engines' = Collect(engs, reng, tks, stopping)
            /\ db_store' = SavedDbOne(bot2)
            /\ json_store' = SavedJson(bots')
            /\ ret' = Returned("start_bot", bot_id, "",
                               IF cause = "ok" THEN "True" ELSE "False", cause)
            /\ UNCHANGED <<webhook_executors, webhook_positions,
                           pending_restart, db_client, id_count, detached,
                           stopping, on_trade_defined, lib>>

\* {"side": None, "entry_price": 0.0, "size": 0.0}
NoPosition == [side |-> "none", entry_price |-> F(0), size |-> F(0)]

StartWebhookCause(bot, key) ==
    IF ~bot.paper_mode /\ bot.symbol = "BTC_USDT_PERP" THEN "perp_live"
    ELSE IF ~bot.paper_mode /\ key \in {"", "your_api_key_here"} THEN "no_api_key"
    ELSE "ok"

StartWebhookBot(bot_id, user_id, key) ==
    LET early == IF bot_id \notin DOMAIN bots THEN "not_found"
                 ELSE IF bots[bot_id].status = "running" THEN "running"
                 ELSE IF NotOwner(bots[bot_id], user_id) THEN "not_owner"
                 ELSE "ok"
    IN
    IF early # "ok"
    THEN /\ ret' = Returned("start_webhook_bot", bot_id, user_id, "False", early)
         /\ UNCHANGED <<bots, running_tasks, running_engines, webhook_executors,
                        webhook_positions, pending_restart, db_client,
                        json_store, db_store, id_count, engines, tasks,
                        detached, stopping, on_trade_defined, lib>>
    ELSE LET bot == bots[bot_id]
             cause == StartWebhookCause(bot, key)
             bot2 == IF cause = "ok"
                     THEN [bot EXCEPT !.status = "running", !.error_msg = "",
                                      !.auto_start = TRUE]
                     ELSE [bot EXCEPT !.status = "error", !.error_msg = cause]
         IN /\ bots' = Put(bots, bot_id, bot2)
            /\ webhook_executors' =
                 IF cause = "ok"
                 THEN Put(webhook_executors, bot_id,
                          IF bot.paper_mode THEN "paper" ELSE "live")
                 ELSE webhook_executors
            /\ webhook_positions' =
                 IF cause = "ok" THEN Put(webhook_positions, bot_id, NoPosition)
                 ELSE webhook_positions
            /\ db_store' = SavedDbOne(bot2)
            /\ json_store' = SavedJson(bots')
            /\ ret' = Returned("start_webhook_bot", bot_id, user_id,
                               IF cause = "ok" THEN "True" ELSE "False", cause)
            /\ UNCHANGED <<running_tasks, running_engines, pending_restart,
                           db_client, id_count, engines, tasks, detached,
                           stopping, on_trade_defined, lib>>

\* api_start_bot / auto_restart_bots pick the method by signal_source
StartDispatch(bot_id, user_id, key) ==
    IF bot_id \in DOMAIN bots /\ bots[bot_id].signal_source = "webhook"
    THEN StartWebhookBot(bot_id, user_id, key)
    ELSE StartBot(bot_id, key)

\* which return statement of stop_bot is taken
StopCause(bot_id, user_id) ==
    IF bot_id \notin DOMAIN bots THEN "not_found"
    ELSE IF NotOwner(bots[bot_id], user_id) THEN "not_owner"
    ELSE "ok"

\* task.cancel() on a task that is not done
\* cancel() sent to every task of the registry
Cancelled_All(tks, t) ==
    [x \in DOMAIN tks |->
        IF tks[x].pc # "done" THEN [tks[x] EXCEPT !.cancel = TRUE] ELSE tks[x]]

Cancelled(tks, t) ==
    IF t \in DOMAIN tks /\ tks[t].pc # "done"
    THEN [tks EXCEPT ![t].cancel = TRUE] ELSE tks

\* the BotConfig object a coroutine holds for bot_id
Obj(bot_id) == IF bot_id \in DOMAIN bots THEN bots[bot_id] ELSE detached[bot_id]

\* stop_bot from `task = self._running_tasks.pop(...)` to its return
\* stop_bot that leaves auto_start as it was
StopTail_KeepsAutoStart(bot_id, user_id, reng, engs, stp) ==
    LET bot2 == [Obj(bot_id) EXCEPT !.status = "stopped", !.error_msg = ""]
        tks == IF bot_id \in DOMAIN running_tasks
               THEN Cancelled(tasks, running_tasks[bot_id]) ELSE tasks
    IN /\ running_tasks' = Pop(running_tasks, bot_id)
       /\ tasks' = LiveTasks(tks, running_tasks')
       /\ webhook_executors' = Pop(webhook_executors, bot_id)
       /\ webhook_positions' = Pop(webhook_positions, bot_id)
       /\ running_engines' = reng
       /\ stopping' = stp
       /\ engines' = Collect(engs, reng, tks, stp)
       /\ IF bot_id \in DOMAIN bots
          THEN bots' = Put(bots, bot_id, bot2) /\ detached' = detached
          ELSE bots' = bots /\ detached' = Put(detached, bot_id, bot2)
       /\ db_store' = SavedDbOne(bot2)
       /\ json_store' = SavedJson(bots')
       /\ ret' = Returned("stop_bot", bot_id, user_id, "True", "ok")
       /\ UNCHANGED <<pending_restart, db_client, id_count, boot,
                      on_trade_defined, lib>>

StopTail(bot_id, user_id, reng, engs, stp) ==
    LET bot2 == [Obj(bot_id) EXCEPT !.status = "stopped", !.error_msg = "",
                                    !.auto_start = FALSE]
        tks == IF bot_id \in DOMAIN running_tasks
               THEN Cancelled(tasks, running_tasks[bot_id]) ELSE tasks
    IN /\ running_tasks' = Pop(running_tasks, bot_id)
       /\ tasks' = LiveTasks(tks, running_tasks')
       /\ webhook_executors' = Pop(webhook_executors, bot_id)
       /\ webhook_positions' = Pop(webhook_positions, bot_id)
       /\ running_engines' = reng
       /\ stopping' = stp
       /\ engines' = Collect(engs, reng, tks, stp)
       /\ IF bot_id \in DOMAIN bots
          THEN bots' = Put(bots, bot_id, bot2) /\ detached' = detached
          ELSE bots' = bots /\ detached' = Put(detached, bot_id, bot2)
       /\ db_store' = SavedDbOne(bot2)
       /\ json_store' = SavedJson(bots')
       /\ ret' = Returned("stop_bot", bot_id, user_id, "True", "ok")
       /\ UNCHANGED <<pending_restart, db_client, id_count, boot,
                      on_trade_defined, lib>>

StopBot(bot_id, user_id) ==
    LET cause == StopCause(bot_id, user_id) IN
    IF cause # "ok"
    THEN /\ ret' = Returned("stop_bot", bot_id, user_id, "False", cause)
         /\ UNCHANGED <<bots, running_tasks, running_engines, webhook_executors,
                        webhook_positions, pending_restart, db_client,
                        json_store, db_store, id_count, engines, tasks,
                        detached, stopping, boot, on_trade_defined, lib>>
    ELSE IF bot_id \in DOMAIN running_engines
    THEN LET e == running_engines[bot_id]
             \* engine.stop(): _running = False, then the stream is closed
             engs == [engines EXCEPT ![e].running = FALSE,
                        ![e].ws = IF @ = "open" THEN "closed" ELSE @]
             reng == Pop(running_engines, bot_id)
         IN IF engines[e].ws \in {"none", "new"}
            THEN StopTail(bot_id, user_id, reng, engs, stopping)
            ELSE \* suspended in `await self._ws.close()` (pionex_ws.py:116)
                 /\ running_engines' = reng
                 /\ engines' = engs
                 /\ stopping' = stopping \cup {[bot |-> bot_id, user |-> user_id, engine |-> e]}
                 /\ ret' = Suspended
                 /\ UNCHANGED <<bots, running_tasks, webhook_executors,
                                webhook_positions, pending_restart, db_client,
                                json_store, db_store, id_count, tasks,
                                detached, boot, on_trade_defined, lib>>
    ELSE StopTail(bot_id, user_id, running_engines, engines, stopping)

\* a suspended stop_bot call resumes after the stream is closed
StopBotResume(c) ==
    /\ c \in stopping
    /\ StopTail(c.bot, c.user, running_engines, engines, stopping \ {c})

----------------------------------------------------------------------------
(* _run_bot and LiveTradingEngine.start: the stream-dispatch task *)

OrchVars == <<running_engines, webhook_executors, webhook_positions,
              pending_restart, db_client, id_count, stopping, boot,
              on_trade_defined, lib>>

\* _run_bot's except/finally clauses; kind is "return", "cancelled" or "error"
\* _run_bot whose except branch also clears auto_start
FinishTask_ClearsAutoStart(t, kind, msg) ==
    LET bot_id == tasks[t].bot
        held == tasks[t].bot_held
        obj == Obj(bot_id)
        obj1 == IF kind = "error"
                THEN [obj EXCEPT !.status = "error", !.error_msg = msg,
                                  !.auto_start = FALSE] ELSE obj
        obj2 == IF obj1.status = "running"
                THEN [obj1 EXCEPT !.status = "stopped"] ELSE obj1
        saved == kind = "error" \/ obj1.status = "running"
        tks == LiveTasks([tasks EXCEPT ![t].pc = "done"], running_tasks)
    IN /\ tasks' = tks
       /\ engines' = Collect(engines, running_engines, tks, stopping)
       /\ IF held /\ bot_id \in DOMAIN bots
          THEN bots' = Put(bots, bot_id, obj2) /\ detached' = detached
          ELSE IF held
          THEN bots' = bots /\ detached' = Put(detached, bot_id, obj2)
          ELSE UNCHANGED <<bots, detached>>
       /\ IF held /\ saved
          THEN db_store' = SavedDbOne(obj2) /\ json_store' = SavedJson(bots')
          ELSE UNCHANGED <<db_store, json_store>>
       /\ ret' = Returned("_run_bot", bot_id, "", kind, msg)
       /\ UNCHANGED <<running_tasks, OrchVars>>

FinishTask(t, kind, msg) ==
    LET bot_id == tasks[t].bot
        held == tasks[t].bot_held
        obj == Obj(bot_id)
        obj1 == IF kind = "error"
                THEN [obj EXCEPT !.status = "error", !.error_msg = msg] ELSE obj
        obj2 == IF obj1.status = "running"
                THEN [obj1 EXCEPT !.status = "stopped"] ELSE obj1
        saved == kind = "error" \/ obj1.status = "running"
        tks == LiveTasks([tasks EXCEPT ![t].pc = "done"], running_tasks)
    IN /\ tasks' = tks
       /\ engines' = Collect(engines, running_engines, tks, stopping)
       /\ IF held /\ bot_id \in DOMAIN bots
          THEN bots' = Put(bots, bot_id, obj2) /\ detached' = detached
          ELSE IF held
          THEN bots' = bots /\ detached' = Put(detached, bot_id, obj2)
          ELSE UNCHANGED <<bots, detached>>
       /\ IF held /\ saved
          THEN db_store' = SavedDbOne(obj2) /\ json_store' = SavedJson(bots')
          ELSE UNCHANGED <<db_store, json_store>>
       /\ ret' = Returned("_run_bot", bot_id, "", kind, msg)
       /\ UNCHANGED <<running_tasks, OrchVars>>

\* the task body is entered: engine.start() up to `await self._load_history()`
TaskStart(t) ==
    /\ t \in DOMAIN tasks /\ tasks[t].pc = "created" /\ ~tasks[t].cancel
    /\ tasks' = [tasks EXCEPT ![t].pc = "loading",
                              ![t].bot_held = tasks[t].bot \in DOMAIN bots]
    /\ engines' = [engines EXCEPT ![t].running = TRUE]
    /\ ret' = Suspended
    /\ UNCHANGED <<bots, detached, db_store, json_store, running_tasks, OrchVars>>

\* deque(maxlen=lookback) with the default lookback
Lookback == 200

\* get_klines_full returned klines candles or raised; on success
\* PionexWebSocket() is built and the task waits in `await self._ws.connect()`
TaskLoaded(t, ok, klines) ==
    /\ t \in DOMAIN tasks /\ tasks[t].pc = "loading" /\ ~tasks[t].cancel
    /\ IF ok
       THEN /\ tasks' = [tasks EXCEPT ![t].pc = "connecting"]
            /\ engines' = [engines EXCEPT
                             ![t].ws = "new",
                             ![t].candles = IF klines > Lookback THEN Lookback
                                            ELSE klines]
            /\ ret' = Suspended
            /\ UNCHANGED <<bots, detached, db_store, json_store, running_tasks,
                           OrchVars>>
       ELSE FinishTask(t, "error", "history_error")

\* connect() and subscribe_trade() returned or raised; on success the trade
\* handler is registered, the candle loop is spawned and listen() is awaited
TaskConnected(t, ok) ==
    /\ t \in DOMAIN tasks /\ tasks[t].pc = "connecting" /\ ~tasks[t].cancel
    /\ IF ok
       THEN /\ tasks' = [tasks EXCEPT ![t].pc = "listening"]
            /\ engines' = [engines EXCEPT ![t].ws = "open", ![t].cpc = "start"]
            /\ ret' = Suspended
            /\ UNCHANGED <<bots, detached, db_store, json_store, running_tasks,
                           OrchVars>>
       ELSE FinishTask(t, "error", "connect_error")

\* listen(): `while self._running and self._ws` is false after close()
TaskListenReturn(t) ==
    /\ t \in DOMAIN tasks /\ tasks[t].pc = "listening" /\ ~tasks[t].cancel
    /\ engines[t].ws = "closed"
    /\ FinishTask(t, "return", "")

\* listen(): recv() raised ConnectionClosed; _reconnect() sleeps, then
\* connect() opens a new socket and sets ws._running again
TaskReconnect(t) ==
    /\ t \in DOMAIN tasks /\ tasks[t].pc = "listening" /\ ~tasks[t].cancel
    /\ engines[t].ws = "closed"
    /\ engines' = [engines EXCEPT ![t].ws = "open"]
    /\ ret' = Suspended
    /\ UNCHANGED <<bots, detached, db_store, json_store, tasks, running_tasks,
                   OrchVars>>

\* task.cancel() takes effect: a task that never started just ends, otherwise
\* CancelledError is raised at the await the task is suspended in
TaskCancelled(t) ==
    /\ t \in DOMAIN tasks /\ tasks[t].pc # "done" /\ tasks[t].cancel
    /\ IF tasks[t].pc = "created"
       THEN LET tks == LiveTasks([tasks EXCEPT ![t].pc = "done"], running_tasks)
            IN /\ tasks' = tks
               /\ engines' = Collect(engines, running_engines, tks, stopping)
               /\ ret' = Returned("_run_bot", tasks[t].bot, "", "never_ran", "")
               /\ UNCHANGED <<bots, detached, db_store, json_store,
                              running_tasks, OrchVars>>
       ELSE FinishTask(t, "cancelled", "")

----------------------------------------------------------------------------
(* LiveTradingEngine._on_trade: run by listen() for each trade message *)

LoopVars == <<bots, detached, db_store, json_store, running_tasks, OrchVars>>

\* total_value = balance + (pos.size * price if pos else 0)
TotalValue(balance, pos, price) ==
    IF pos.side = "none" THEN balance ELSE FAdd(balance, FMul(pos.size, price))

\* a trade message with a price arrives: the unrealized PnL is updated and the
\* balance asked for; PaperExecutor.get_balance answers without suspending,
\* PionexExecutor.get_balance awaits the exchange
OnTrade(t, price) ==
    /\ t \in DOMAIN tasks /\ tasks[t].pc = "listening" /\ ~tasks[t].cancel
    /\ engines[t].ws = "open"
    /\ LET eng == engines[t]
           pos == update_unrealized_pnl(eng.position, F(price))
       IN IF eng.executor = "paper"
          THEN /\ engines' = [engines EXCEPT
                    ![t].position = pos,
                    ![t].risk = RiskUpdate(@, TotalValue(eng.paper.quote, pos,
                                                        F(price)))]
               /\ tasks' = tasks
          ELSE /\ engines' = [engines EXCEPT ![t].position = pos,
                                             ![t].trade_price = F(price)]
               /\ tasks' = [tasks EXCEPT ![t].pc = "on_trade"]
    /\ ret' = Suspended
    /\ UNCHANGED LoopVars

\* the exchange answered get_balance (or the call raised, which listen() logs)
OnTradeBalance(t, ok, balance) ==
    /\ t \in DOMAIN tasks /\ tasks[t].pc = "on_trade" /\ ~tasks[t].cancel
    /\ LET eng == engines[t] IN
       engines' = [engines EXCEPT
          ![t].trade_price = F(0),
          ![t].risk = IF ok
                      THEN RiskUpdate(@, TotalValue(F(balance), eng.position,
                                                    eng.trade_price))
                      ELSE @]
    /\ tasks' = [tasks EXCEPT ![t].pc = "listening"]
    /\ ret' = Suspended
    /\ UNCHANGED LoopVars

----------------------------------------------------------------------------
(* LiveTradingEngine._candle_loop: the candle-evaluation sub-task *)

\* `len(self._candle_buffer) < 50`
MinCandles == 50

\* `while self._running:` - enter asyncio.sleep(10) or leave the loop
CandleHead(engs, e) ==
    [engs EXCEPT ![e].cpc = IF engs[e].running THEN "sleep" ELSE "done",
                 ![e].local = NoLocal]

\* what a step of the sub-task reports when _evaluate_signals returns
Evaluated(e, outcome, reason) ==
    Returned("_evaluate_signals", engines[e].bot, "", outcome, reason)

\* _evaluate_signals has returned: back to the loop head
EvalEnd(engs, e, outcome, reason) ==
    /\ engines' = Collect(CandleHead(engs, e), running_engines, tasks, stopping)
    /\ ret' = Evaluated(e, outcome, reason)

\* the sub-task is entered for the first time
CandleStart(e) ==
    /\ e \in DOMAIN engines /\ engines[e].cpc = "start"
    /\ engines' = Collect(CandleHead(engines, e), running_engines, tasks, stopping)
    /\ ret' = Suspended
    /\ UNCHANGED <<tasks, LoopVars>>

\* sleep(10) is over: in a new period _evaluate_signals runs, returns at once
\* when halted or short of candles, and otherwise suspends in get_klines
CandleWake(e, new_period) ==
    /\ e \in DOMAIN engines /\ engines[e].cpc = "sleep"
    /\ IF ~new_period
       THEN /\ engines' = Collect(CandleHead(engines, e), running_engines,
                                  tasks, stopping)
            /\ ret' = Suspended
       ELSE IF engines[e].risk.halted
       THEN EvalEnd(engines, e, "skipped", "halted")
       ELSE IF engines[e].candles < MinCandles
       THEN EvalEnd(engines, e, "skipped", "few_candles")
       ELSE /\ engines' = [engines EXCEPT ![e].cpc = "refresh"]
            /\ ret' = Suspended
    /\ UNCHANGED <<tasks, LoopVars>>

\* the last row of the four signal series
Signals == [entry_long : BOOLEAN, exit_long : BOOLEAN,
            entry_short : BOOLEAN, exit_short : BOOLEAN]

\* the if / elif chain over an open position (engine.py:177-187)
ExitReason_NoStopLoss(rm, pos, sig, price) ==
    IF pos.side = "long" /\ sig.exit_long THEN "exit_flag"
    ELSE IF pos.side = "short" /\ sig.exit_short THEN "exit_flag"
    ELSE IF check_take_profit(rm, pos.entry_price, price, pos.side)
    THEN "take_profit"
    ELSE "none"

ExitReason(rm, pos, sig, price) ==
    IF pos.side = "long" /\ sig.exit_long THEN "exit_flag"
    ELSE IF pos.side = "short" /\ sig.exit_short THEN "exit_flag"
    ELSE IF check_stop_loss(rm, pos.entry_price, price, pos.side)
    THEN "stop_loss"
    ELSE IF check_take_profit(rm, pos.entry_price, price, pos.side)
    THEN "take_profit"
    ELSE "none"

\* the if / elif over the entry flags (engine.py:190-193)
EntrySide(sig) ==
    IF sig.entry_long THEN "long"
    ELSE IF sig.entry_short THEN "short"
    ELSE "none"

\* order_side of _open_position / _close_position
OpenOrderSide(side) == IF side = "long" THEN "BUY" ELSE "SELL"

CloseOrderSide(pos) == IF pos.side = "long" THEN "SELL" ELSE "BUY"

\* position_manager.open_position(symbol, side, fill_price, size)
Opened(eng, side, fill_price, size) ==
    [eng EXCEPT !.position = open_position(side, fill_price, size)]

\* position_manager.close_position(symbol, price)
Closed(eng, price) ==
    IF eng.position.side = "none" THEN eng
    ELSE [eng EXCEPT !.position = Flat,
                     !.history = Append(@, ClosedTrade(eng.position, price))]

\* get_klines answered (fresh new candles, none when it raised), the signals
\* are computed and the decision table is walked up to the next suspension:
\* PionexExecutor awaits the exchange, PaperExecutor answers in the same step
CandleDecide(e, fresh, sig, price) ==
    /\ e \in DOMAIN engines /\ engines[e].cpc = "refresh"
    /\ LET eng0 == engines[e]
           n == eng0.candles + fresh
           eng == [eng0 EXCEPT !.candles = IF n > Lookback THEN Lookback ELSE n]
           engs == [engines EXCEPT ![e] = eng]
           pos == eng.position
           reason == IF pos.side # "none" THEN ExitReason(eng.risk, pos, sig, F(price))
                     ELSE IF EntrySide(sig) = "none" THEN "none"
                     ELSE "enter_" \o EntrySide(sig)
       IN IF reason = "none"
          THEN EvalEnd(engs, e, "no_order", "none")
          ELSE IF eng.executor = "live"
          THEN /\ engines' =
                    [engs EXCEPT
                       ![e].cpc = IF pos.side # "none" THEN "order" ELSE "balance",
                       ![e].local =
                          IF pos.side # "none"
                          THEN [kind |-> "close", reason |-> reason,
                                price |-> F(price), side |-> pos.side,
                                size |-> pos.size]
                          ELSE [kind |-> "open", reason |-> reason,
                                price |-> F(price), side |-> EntrySide(sig),
                                size |-> F(0)]]
               /\ ret' = Suspended
          ELSE IF pos.side # "none"
          THEN IF PaperRaises(eng.paper, CloseOrderSide(pos), pos.size)
               THEN EvalEnd(engs, e, "raised", reason)
               ELSE EvalEnd(
                      [engs EXCEPT
                         ![e] = [Closed(eng, F(price)) EXCEPT
                                   !.paper = PaperFilled(@, CloseOrderSide(pos),
                                                         pos.size)]],
                      e, "closed", reason)
          ELSE LET side == EntrySide(sig)
                   size == calculate_position_size(eng.paper.quote, F(price))
               IN IF FLe(size, F(0))
                  THEN EvalEnd(engs, e, "zero_size", reason)
                  ELSE IF PaperRaises(eng.paper, OpenOrderSide(side), size)
                  THEN EvalEnd(engs, e, "raised", reason)
                  ELSE EvalEnd(
                         [engs EXCEPT
                            ![e] = [Opened(eng, side, eng.paper.price, size)
                                      EXCEPT !.paper =
                                        PaperFilled(@, OpenOrderSide(side), size)]],
                         e, "opened", reason)
    /\ UNCHANGED <<tasks, LoopVars>>

\* get_klines raised: the except clause logs "Failed to refresh candles" and
\* _evaluate_signals goes on with the buffer as it is
CandleRefreshFailed(e, sig, price) == CandleDecide(e, 0, sig, price)

\* _open_position: PionexExecutor.get_balance answered or raised
CandleBalance(e, ok, balance) ==
    /\ e \in DOMAIN engines /\ engines[e].cpc = "balance"
    /\ LET loc == engines[e].local
           size == calculate_position_size(F(balance), loc.price)
       IN IF ~ok
          THEN EvalEnd(engines, e, "raised", loc.reason)
          ELSE IF FLe(size, F(0))
          THEN EvalEnd(engines, e, "zero_size", loc.reason)
          ELSE /\ engines' = [engines EXCEPT ![e].cpc = "order",
                                             ![e].local.size = size]
               /\ ret' = Suspended
    /\ UNCHANGED <<tasks, LoopVars>>

\* PionexExecutor.place_market_order answered (fill is the "price" of the
\* answer, None when it has none) or raised
\* the position is recorded although the order raised
CandleOrderDone_RecordsOnFailure(e, ok, fill) ==
    /\ e \in DOMAIN engines /\ engines[e].cpc = "order"
    /\ LET eng == engines[e]
           loc == eng.local
           outcome == IF ok THEN (IF loc.kind = "open" THEN "opened" ELSE "closed")
                      ELSE "raised"
       IN IF loc.kind = "open"
          THEN EvalEnd([engines EXCEPT
                          ![e] = Opened(eng, loc.side,
                                        IF fill = None THEN loc.price
                                        ELSE F(fill[1]), loc.size)],
                       e, outcome, loc.reason)
          ELSE EvalEnd([engines EXCEPT ![e] = Closed(eng, loc.price)],
                       e, outcome, loc.reason)
    /\ UNCHANGED <<tasks, LoopVars>>

CandleOrderDone(e, ok, fill) ==
    /\ e \in DOMAIN engines /\ engines[e].cpc = "order"
    /\ LET eng == engines[e]
           loc == eng.local
       IN IF ~ok
          THEN EvalEnd(engines, e, "raised", loc.reason)
          ELSE IF loc.kind = "open"
          THEN EvalEnd([engines EXCEPT
                          ![e] = Opened(eng, loc.side,
                                        IF fill = None THEN loc.price
                                        ELSE F(fill[1]), loc.size)],
                       e, "opened", loc.reason)
          ELSE EvalEnd([engines EXCEPT ![e] = Closed(eng, loc.price)],
                       e, "closed", loc.reason)
    /\ UNCHANGED <<tasks, LoopVars>>

----------------------------------------------------------------------------
(* execute_webhook_signal: a TradingView alert routed to a webhook bot *)

\* `action` as api_webhook passes it on (already stripped, never empty)
RawActions == {"buy", "SELL", "close", "close_long", "CLOSE_SHORT", "hold"}

\* action.lower().strip() on the actions above
Normalize(action) ==
    CASE action = "SELL" -> "sell"
      [] action = "CLOSE_SHORT" -> "close_short"
      [] OTHER -> action

\* f"{price:,.2f}" for a whole number of dollars below one million
Money(p) ==
    LET low == p % 1000
        pad == IF low < 10 THEN "00" ELSE IF low < 100 THEN "0" ELSE ""
    IN (IF p < 1000 THEN ToString(p)
        ELSE ToString(p \div 1000) \o "," \o pad \o ToString(low)) \o ".00"

\* f"BUY @ ${price:,.2f}" if price else "BUY"
SignalText(word, price) ==
    IF price = None THEN word ELSE word \o " @ $" \o Money(price[1])

\* the first bot in dict order whose webhook_token is the token; 0 for None
get_bot_by_webhook_token(token) ==
    LET hits == {b \in DOMAIN bots : bots[b].webhook_token = token}
    IN IF hits = {} THEN 0 ELSE CHOOSE b \in hits : \A c \in hits : b <= c

\* _calc_webhook_pnl
\* the long formula used for either side
calc_webhook_pnl_LongOnly(pos, exit_price, side) ==
    IF pos.entry_price = F(0) \/ exit_price = F(0) THEN F(0)
    ELSE LET diff == FSub(exit_price, pos.entry_price)
         IN FMul(FMul(FDiv(diff, pos.entry_price), pos.size), pos.entry_price)

calc_webhook_pnl(pos, exit_price, side) ==
    IF pos.entry_price = F(0) \/ exit_price = F(0) THEN F(0)
    ELSE LET diff == IF side = "long" THEN FSub(exit_price, pos.entry_price)
                     ELSE FSub(pos.entry_price, exit_price)
         IN FMul(FMul(FDiv(diff, pos.entry_price), pos.size), pos.entry_price)

\* (wins, trades) up to six trades for which the float product
\* win_rate / 100 * trades falls just below wins, so that int() loses one
FloatShort == {<<1, 3>>, <<2, 3>>, <<1, 6>>, <<2, 6>>, <<4, 6>>}

\* int(bot.win_rate / 100 * (bot.total_trades - 1)), n the trades before
WinsBefore(win_rate, n) ==
    LET x == FMul(FDiv(win_rate, F(100)), F(n))
        w == x[1] \div x[2]
    IN IF <<w, n>> \in FloatShort /\ x[2] = 1 THEN w - 1 ELSE w

record_webhook_trade(bot, action, price, pnl) ==
    LET n == bot.total_trades + 1
        wins == WinsBefore(bot.win_rate, n - 1) + (IF FLt(F(0), pnl) THEN 1 ELSE 0)
        trade == [action |-> action,
                  price |-> IF price = None THEN None ELSE F(price[1]),
                  pnl |-> Round(pnl, 4), time |-> Now]
    IN [bot EXCEPT !.total_pnl = FAdd(@, pnl),
                   !.total_trades = n,
                   !.win_rate = FMul(Frac(wins, n), F(100)),
                   !.trade_history = Last50(Append(@, trade))]

\* the three rejections made before the action is looked at
\* the executor looked for before the status
RouterReject_ExecutorFirst(b) ==
    IF b = 0 THEN "Invalid webhook token"
    ELSE IF b \notin DOMAIN webhook_executors THEN "Executor not ready"
    ELSE IF bots[b].status # "running"
    THEN "Bot is " \o bots[b].status \o ", not running"
    ELSE "ok"

RouterReject(b) ==
    IF b = 0 THEN "Invalid webhook token"
    ELSE IF bots[b].status # "running"
    THEN "Bot is " \o bots[b].status \o ", not running"
    ELSE IF b \notin DOMAIN webhook_executors THEN "Executor not ready"
    ELSE "ok"

\* size = bot.capital / (price or 1.0); price is None or <<p>>
\* the capital itself taken as the size
EntrySize_Capital(bot, price) == F(bot.capital)

EntrySize(bot, price) ==
    FDiv(F(bot.capital), IF price = None THEN F(1) ELSE F(price[1]))

\* the try block: the bot, the position and the actions reported
Applied(bot, pos, a, price) ==
    LET px == IF price = None THEN F(0) ELSE F(price[1])
        size == EntrySize(bot, price)
        entry == IF a = "buy" THEN "long" ELSE "short"
        against == IF a = "buy" THEN "short" ELSE "long"
    IN IF a \in {"buy", "sell"}
       THEN LET flips == pos.side = against
                bot1 == IF flips
                        THEN record_webhook_trade(bot, "close_" \o against, price,
                                 calc_webhook_pnl(pos, px, against))
                        ELSE bot
            IN [bot |-> [bot1 EXCEPT !.last_signal =
                           SignalText(IF a = "buy" THEN "BUY" ELSE "SELL", price)],
                pos |-> [side |-> entry, entry_price |-> px, size |-> size],
                actions |-> (IF flips THEN "closed_" \o against \o "," ELSE "")
                            \o "opened_" \o entry]
       ELSE IF pos.side # "none"
       THEN [bot |-> [record_webhook_trade(bot, "close", price,
                         calc_webhook_pnl(pos, px, pos.side))
                        EXCEPT !.last_signal = SignalText("CLOSE", price)],
             pos |-> NoPosition,
             actions |-> "closed_position"]
       ELSE [bot |-> bot, pos |-> pos, actions |-> "no_position"]

WebhookActions == {"buy", "sell", "close", "close_long", "close_short"}

\* execute_webhook_signal
\* an unknown action is written to last_signal before it is rejected
ExecuteWebhookSignal_RecordsUnknown(token, action, price) ==
    LET b == get_bot_by_webhook_token(token)
        a == Normalize(action)
    IN IF RouterReject(b) # "ok"
       THEN /\ ret' = Returned("execute_webhook_signal", b, "", "rejected",
                               RouterReject(b))
            /\ UNCHANGED <<bots, running_tasks, running_engines, webhook_executors,
                           webhook_positions, pending_restart, db_client,
                           json_store, db_store, id_count, engines, tasks,
                           detached, stopping, boot, on_trade_defined, lib>>
       ELSE LET pos == IF b \in DOMAIN webhook_positions
                       THEN webhook_positions[b] ELSE NoPosition
                known == a \in WebhookActions
                r == IF known THEN Applied(bots[b], pos, a, price)
                     ELSE [bot |-> [bots[b] EXCEPT !.last_signal = action],
                           pos |-> pos, actions |-> "Unknown action: " \o action]
                bot2 == [r.bot EXCEPT !.last_signal_time = Now]
            IN /\ bots' = Put(bots, b, bot2)
               /\ webhook_positions' = Put(webhook_positions, b, r.pos)
               /\ db_store' = SavedDbOne(bot2)
               /\ json_store' = SavedJson(bots')
               /\ ret' = Returned("execute_webhook_signal", b, "",
                                  IF known THEN "executed" ELSE "rejected",
                                  r.actions)
               /\ UNCHANGED <<running_tasks, running_engines, webhook_executors,
                              pending_restart, db_client, id_count, engines,
                              tasks, detached, stopping, boot, on_trade_defined, lib>>

ExecuteWebhookSignal(token, action, price) ==
    LET b == get_bot_by_webhook_token(token)
        a == Normalize(action)
        reject == IF RouterReject(b) # "ok" THEN RouterReject(b)
                  ELSE IF a \notin WebhookActions
                  THEN "Unknown action: " \o action
                  ELSE "ok"
    IN IF reject # "ok"
       THEN /\ ret' = Returned("execute_webhook_signal", b, "", "rejected", reject)
            /\ UNCHANGED <<bots, running_tasks, running_engines, webhook_executors,
                           webhook_positions, pending_restart, db_client,
                           json_store, db_store, id_count, engines, tasks,
                           detached, stopping, boot, on_trade_defined, lib>>
       ELSE LET pos == IF b \in DOMAIN webhook_positions
                       THEN webhook_positions[b] ELSE NoPosition
                r == Applied(bots[b], pos, a, price)
                bot2 == [r.bot EXCEPT !.last_signal_time = Now]
            IN /\ bots' = Put(bots, b, bot2)
               /\ webhook_positions' = Put(webhook_positions, b, r.pos)
               /\ db_store' = SavedDbOne(bot2)
               /\ json_store' = SavedJson(bots')
               /\ ret' = Returned("execute_webhook_signal", b, "", "executed",
                                  r.actions)
               /\ UNCHANGED <<running_tasks, running_engines, webhook_executors,
                              pending_restart, db_client, id_count, engines,
                              tasks, detached, stopping, boot, on_trade_defined, lib>>

----------------------------------------------------------------------------
Init ==
    /\ bots = EmptyMap
    /\ running_tasks = EmptyMap
    /\ running_engines = EmptyMap
    /\ webhook_executors = EmptyMap
    /\ webhook_positions = EmptyMap
    /\ pending_restart = {}
    /\ db_client \in BOOLEAN
    /\ json_store = EmptyMap
    /\ db_store = EmptyMap
    /\ id_count = 0
    /\ engines = EmptyMap
    /\ tasks = EmptyMap
    /\ detached = EmptyMap
    /\ stopping = {}
    /\ boot = Serving
    /\ on_trade_defined = FALSE
    /\ lib = NoLib
    /\ ret = [op |-> "init", bot |-> 0, user |-> "", result |-> "None",
              cause |-> "ok", was |-> "", owner |-> ""]

\* ids callers ask for: every id handed out and one that never is
BotIds == 1..(NumBots + 1)

Next ==
    \/ \E a \in CreateInputs : id_count < NumBots /\ CreateBot(a)
    \/ \E b \in BotIds, u \in Users : DeleteBot(b, u)
    \/ \E b \in BotIds, u \in Users, upd \in UpdateInputs : UpdateBot(b, u, upd)
    \/ \E b \in BotIds, u \in Users, k \in ApiKeys :
          StartDispatch(b, u, k) /\ UNCHANGED boot
    \/ \E b \in BotIds, u \in Users : StopBot(b, u)

Spec == Init /\ [][Next]_vars

----------------------------------------------------------------------------
(* The orchestrator wired to an engine class that provides on_trade(), so   *)
(* that start_bot gets past bot_manager.py:401 and the loop runs.           *)

LoopInit ==
    /\ bots = EmptyMap
    /\ running_tasks = EmptyMap
    /\ running_engines = EmptyMap
    /\ webhook_executors = EmptyMap
    /\ webhook_positions = EmptyMap
    /\ pending_restart = {}
    /\ db_client = TRUE
    /\ json_store = EmptyMap
    /\ db_store = EmptyMap
    /\ id_count = 0
    /\ engines = EmptyMap
    /\ tasks = EmptyMap
    /\ detached = EmptyMap
    /\ stopping = {}
    /\ boot = Serving
    /\ on_trade_defined = TRUE
    /\ lib = NoLib
    /\ ret = [op |-> "init", bot |-> 0, user |-> "", result |-> "None",
              cause |-> "ok", was |-> "", owner |-> ""]

RunIds == 1..(MaxRuns + 1)

\* a quiet candle, an entry signal and an exit signal
Quiet == [entry_long |-> FALSE, exit_long |-> FALSE,
          entry_short |-> FALSE, exit_short |-> FALSE]

LoopSignals == {Quiet, [Quiet EXCEPT !.entry_long = TRUE],
                [Quiet EXCEPT !.exit_long = TRUE]}

LoopNext ==
    \/ \E a \in LoopCreateInputs : id_count < 1 /\ CreateBot(a)
    \/ DeleteBot(1, "")
    \/ /\ Cardinality(DOMAIN engines \cup DOMAIN tasks) < MaxRuns
       /\ StartBot(1, "k1")
       /\ UNCHANGED boot
    \/ StopBot(1, "")
    \/ \E c \in stopping : StopBotResume(c)
    \/ \E t \in RunIds : TaskStart(t)
    \/ \E t \in RunIds, ok \in BOOLEAN : TaskLoaded(t, ok, Lookback)
    \/ \E t \in RunIds, ok \in BOOLEAN : TaskConnected(t, ok)
    \/ \E t \in RunIds : TaskListenReturn(t)
    \/ \E t \in RunIds : TaskReconnect(t)
    \/ \E t \in RunIds : TaskCancelled(t)
    \/ \E e \in RunIds : CandleStart(e)
    \/ \E e \in RunIds, np \in BOOLEAN :
          /\ e \in DOMAIN engines /\ Len(engines[e].history) < MaxTrades
          /\ CandleWake(e, np)
    \/ \E e \in RunIds, sig \in LoopSignals : CandleDecide(e, 0, sig, 100)
    \/ \E e \in RunIds, sig \in LoopSignals : CandleRefreshFailed(e, sig, 100)
    \/ \E e \in RunIds : CandleBalance(e, TRUE, 1000)
    \/ \E e \in RunIds, ok \in BOOLEAN : CandleOrderDone(e, ok, None)

LoopSpec == LoopInit /\ [][LoopNext]_vars

----------------------------------------------------------------------------
(* One strategy bot started and stopped again while the tasks of earlier   *)
(* starts are still ending: the stream-dispatch task alone, the candle     *)
(* loop asleep.                                                            *)

RaceIds == 1..(MaxStarts + 1)

RaceNext ==
    \/ id_count < 1 /\ CreateBot(CreateArgs("", "strategy", TRUE))
    \/ /\ Cardinality(DOMAIN engines \cup DOMAIN tasks) < MaxStarts
       /\ StartBot(1, "k1")
       /\ UNCHANGED boot
    \/ StopBot(1, "")
    \/ \E c \in stopping : StopBotResume(c)
    \/ \E t \in RaceIds : TaskStart(t)
    \/ \E t \in RaceIds, ok \in BOOLEAN : TaskLoaded(t, ok, Lookback)
    \/ \E t \in RaceIds, ok \in BOOLEAN : TaskConnected(t, ok)
    \/ \E t \in RaceIds : TaskListenReturn(t)
    \/ \E t \in RaceIds : TaskReconnect(t)
    \/ \E t \in RaceIds : TaskCancelled(t)

RaceSpec == LoopInit /\ [][RaceNext]_vars

----------------------------------------------------------------------------
(* One webhook bot, started and stopped, and the alerts sent to its URL and *)
(* to a URL no bot has.                                                     *)

WebhookCreateInputs ==
    {CreateArgs("", "webhook", paper) : paper \in BOOLEAN}

\* the token in the URL: the bot's, and one that was never handed out
Tokens == {"tok1", "tok9"}

\* the "price" of the alert: absent, or a positive number
AlertPrices == {None, <<100>>, <<110>>}

WebhookNext ==
    \/ \E a \in WebhookCreateInputs : id_count < 1 /\ CreateBot(a)
    \/ \E k \in {"", "k1"} : StartWebhookBot(1, "", k) /\ UNCHANGED boot
    \/ StopBot(1, "")
    \/ \E token \in Tokens, action \in RawActions, price \in AlertPrices :
          /\ \A b \in DOMAIN bots : bots[b].total_trades < MaxSignals
          /\ ExecuteWebhookSignal(token, action, price)

WebhookSpec == Init /\ [][WebhookNext]_vars

----------------------------------------------------------------------------
(* The trade histories of one bot over more trades than a history keeps:   *)
(* a webhook bot flipped between long and short by buy and sell alerts, or *)
(* a strategy bot whose engine reports its trades through the callback     *)
(* start_bot registers.  The bot is started as api_start_bot starts it, by  *)
(* its signal source (app.py:870-879).                                     *)

\* the closure _on_engine_trade(action, side, price, size, pnl)
on_engine_trade(bot, action, side, price, size, pnl) ==
    LET n == bot.total_trades + 1
        wins == Round(FMul(FDiv(bot.win_rate, F(100)), F(n - 1)), 0)[1]
        rate == IF FLt(F(0), pnl) THEN Round(FMul(Frac(wins + 1, n), F(100)), 1)
                ELSE IF n > 1 THEN Round(FMul(Frac(wins, n), F(100)), 1)
                ELSE F(0)
        trade == [action |-> action, side |-> side, price |-> price,
                  size |-> size, pnl |-> Round(pnl, 4), time |-> Now]
        b == IF action = "close"
             THEN [bot EXCEPT !.total_trades = n,
                              !.total_pnl = FAdd(@, pnl),
                              !.win_rate = rate,
                              !.trade_history = Append(@, trade)]
             ELSE bot
    IN [b EXCEPT !.last_signal = action \o " " \o side,
                 !.last_signal_time = Now]

\* engine e calls the callback registered with it.  LiveTradingEngine has no
\* such call (and no on_trade): the engine is taken to report each trade it
\* makes, as the registration at bot_manager.py:401 expects.
OnEngineTrade(e, action, side, price, size, pnl) ==
    /\ e \in DOMAIN engines
    /\ engines[e].callback
    /\ LET bot_id == engines[e].bot IN
       /\ IF bot_id \notin DOMAIN bots
          THEN UNCHANGED <<bots, db_store, json_store>>
          ELSE LET b == on_engine_trade(bots[bot_id], action, side, price, size, pnl)
               IN /\ bots' = Put(bots, bot_id, b)
                  /\ db_store' = SavedDbOne(b)
                  /\ json_store' = SavedJson(bots')
       /\ ret' = Returned("_on_engine_trade", bot_id, "", "None", action)
    /\ UNCHANGED <<running_tasks, running_engines, webhook_executors,
                   webhook_positions, pending_restart, db_client, id_count,
                   engines, tasks, detached, stopping, boot, on_trade_defined, lib>>

HistoryCreateInputs ==
    {CreateArgs("", source, TRUE) : source \in {"strategy", "webhook"}}

HistoryNext ==
    \/ \E a \in HistoryCreateInputs : id_count < 1 /\ CreateBot(a)
    \/ /\ DOMAIN engines = {}
       /\ 1 \in DOMAIN bots /\ bots[1].signal_source # "webhook"
       /\ StartBot(1, "k1")
       /\ UNCHANGED boot
    \/ /\ 1 \in DOMAIN bots /\ bots[1].signal_source = "webhook"
       /\ StartWebhookBot(1, "", "k1")
       /\ UNCHANGED boot
    \/ \E action \in {"buy", "sell"} :
          /\ \A b \in DOMAIN bots : bots[b].total_trades < MaxHistory
          /\ ExecuteWebhookSignal("tok1", action, <<100>>)
    \/ \E action \in {"open", "close"} :
          /\ \A b \in DOMAIN bots : bots[b].total_trades < MaxHistory
          /\ OnEngineTrade(1, action, "long", F(110), Frac(19, 2), F(95))

HistorySpec == LoopInit /\ [][HistoryNext]_vars

----------------------------------------------------------------------------
(* One strategy bot and its engine, with the markets, balances and signals  *)
(* an evaluation step can meet.  LiveTradingEngine is run the same way by   *)
(* the `live` command of cli.py.                                            *)

\* closing prices and trade prices
Prices == {70, 100, 110}

\* free USDT balances the exchange reports
Balances == {0, 1000}

\* candles get_klines_full returns
HistorySizes == {10, 200}

\* the "price" of an order answer: absent, or the fill price
Fills == {None, <<100>>}

EvalCreateInputs ==
    {[CreateArgs("", "strategy", paper) EXCEPT !.sl_pct = r[1], !.tp_pct = r[2]] :
        paper \in BOOLEAN, r \in {<<None, None>>, <<(<<5>>), (<<10>>)>>}}

EvalNext ==
    \/ \E a \in EvalCreateInputs : id_count < 1 /\ CreateBot(a)
    \/ /\ DOMAIN engines = {}
       /\ StartBot(1, "k1")
       /\ UNCHANGED boot
    \/ TaskStart(1)
    \/ \E ok \in BOOLEAN, n \in HistorySizes : TaskLoaded(1, ok, n)
    \/ \E ok \in BOOLEAN : TaskConnected(1, ok)
    \/ \E p \in Prices : OnTrade(1, p)
    \/ \E ok \in BOOLEAN, b \in Balances : OnTradeBalance(1, ok, b)
    \/ CandleStart(1)
    \/ \E np \in BOOLEAN :
          /\ 1 \in DOMAIN engines /\ Len(engines[1].history) < MaxTrades
          /\ CandleWake(1, np)
    \/ \E fresh \in {0, 1}, sig \in Signals, p \in Prices :
          CandleDecide(1, fresh, sig, p)
    \/ \E ok \in BOOLEAN, b \in Balances : CandleBalance(1, ok, b)
    \/ \E ok \in BOOLEAN, fill \in Fills : CandleOrderDone(1, ok, fill)

EvalSpec == LoopInit /\ [][EvalNext]_vars

----------------------------------------------------------------------------
(* One strategy bot whose strategy function can raise (CrashSpec) *)

\* _evaluate_signals raises outside the try block around the orders
\* (engine.py:158-171: the DataFrame is built and strategy.generate_signals is
\* called): the exception leaves _candle_loop and ends the task that
\* create_task(self._candle_loop()) made, which nothing awaits
CandleRaised(e) ==
    /\ e \in DOMAIN engines /\ engines[e].cpc = "refresh"
    /\ engines' = Collect([engines EXCEPT ![e].cpc = "done", ![e].local = NoLocal],
                          running_engines, tasks, stopping)
    /\ ret' = Returned("_candle_loop", engines[e].bot, "", "exception",
                       "strategy_error")
    /\ UNCHANGED <<tasks, LoopVars>>

CrashNext ==
    \/ \E a \in LoopCreateInputs : id_count < 1 /\ CreateBot(a)
    \/ /\ Cardinality(DOMAIN engines \cup DOMAIN tasks) < MaxRuns
       /\ StartBot(1, "k1")
       /\ UNCHANGED boot
    \/ StopBot(1, "")
    \/ \E c \in stopping : StopBotResume(c)
    \/ \E t \in RunIds : TaskStart(t)
    \/ \E t \in RunIds, ok \in BOOLEAN : TaskLoaded(t, ok, Lookback)
    \/ \E t \in RunIds, ok \in BOOLEAN : TaskConnected(t, ok)
    \/ \E t \in RunIds, p \in {100, 110} : OnTrade(t, p)
    \/ \E t \in RunIds : OnTradeBalance(t, TRUE, 1000)
    \/ \E t \in RunIds : TaskListenReturn(t)
    \/ \E t \in RunIds : TaskCancelled(t)
    \/ \E e \in RunIds : CandleStart(e)
    \/ \E e \in RunIds, np \in BOOLEAN : CandleWake(e, np)
    \/ \E e \in RunIds : CandleDecide(e, 0, Quiet, 100)
    \/ \E e \in RunIds : CandleRaised(e)

CrashSpec == LoopInit /\ [][CrashNext]_vars

----------------------------------------------------------------------------
(* One live strategy bot and the exchange account its PionexExecutor       *)
(* trades on: the balance get_balance reports and the orders               *)
(* place_market_order submits meet in the same account, and the exchange   *)
(* executes an order some time before its answer reaches the engine.       *)

\* the account: free USDT, free base asset, market orders executed so far
NewAccount(quote) ==
    [kind |-> "exchange", quote |-> F(quote), base |-> F(0), fills |-> 0]

\* closing prices and trade prices of FlightSpec
FlightPrices == {100, 200}

\* orders whose answer the engine has received and recorded
Answered(eng) ==
    2 * Len(eng.history) + (IF eng.position.side = "none" THEN 0 ELSE 1)

\* the order in flight has been executed, its answer is still under way
Filled(e) == lib.fills > Answered(engines[e])

\* the exchange executes the market order submitted by _open_position or
\* _close_position at the market price; a spot account cannot buy for more
\* than its free quote balance nor sell more than its free base balance
ExchangeFill(e) ==
    /\ e \in DOMAIN engines /\ engines[e].cpc = "order" /\ ~Filled(e)
    /\ LET loc == engines[e].local
           order_side == IF loc.kind = "open" THEN OpenOrderSide(loc.side)
                         ELSE CloseOrderSide(loc)
           amount == FMul(loc.size, loc.price)
       IN IF order_side = "BUY"
          THEN /\ FLe(amount, lib.quote)
               /\ lib' = [lib EXCEPT !.quote = FSub(@, amount),
                                     !.base = FAdd(@, loc.size),
                                     !.fills = @ + 1]
          ELSE /\ FLe(loc.size, lib.base)
               /\ lib' = [lib EXCEPT !.quote = FAdd(@, amount),
                                     !.base = FSub(@, loc.size),
                                     !.fills = @ + 1]
    /\ UNCHANGED <<bots, detached, db_store, json_store, running_tasks,
                   running_engines, webhook_executors, webhook_positions,
                   pending_restart, db_client, id_count, stopping, boot,
                   on_trade_defined, engines, tasks, ret>>

FlightInit ==
    /\ bots = EmptyMap
    /\ running_tasks = EmptyMap
    /\ running_engines = EmptyMap
    /\ webhook_executors = EmptyMap
    /\ webhook_positions = EmptyMap
    /\ pending_restart = {}
    /\ db_client = TRUE
    /\ json_store = EmptyMap
    /\ db_store = EmptyMap
    /\ id_count = 0
    /\ engines = EmptyMap
    /\ tasks = EmptyMap
    /\ detached = EmptyMap
    /\ stopping = {}
    /\ boot = Serving
    /\ on_trade_defined = TRUE
    /\ lib = NewAccount(1000)
    /\ ret = [op |-> "init", bot |-> 0, user |-> "", result |-> "None",
              cause |-> "ok", was |-> "", owner |-> ""]

FlightNext ==
    \/ id_count < 1 /\ CreateBot(CreateArgs("", "strategy", FALSE))
    \/ /\ DOMAIN engines = {}
       /\ StartBot(1, "k1")
       /\ UNCHANGED boot
    \/ TaskStart(1)
    \/ \E ok \in BOOLEAN : TaskLoaded(1, ok, Lookback)
    \/ \E ok \in BOOLEAN : TaskConnected(1, ok)
    \/ \E p \in FlightPrices : OnTrade(1, p)
    \/ \E ok \in BOOLEAN : lib.quote[2] = 1 /\ OnTradeBalance(1, ok, lib.quote[1])
    \/ CandleStart(1)
    \/ \E np \in BOOLEAN :
          /\ 1 \in DOMAIN engines /\ Len(engines[1].history) < MaxTrades
          /\ CandleWake(1, np)
    \/ \E sig \in LoopSignals \cup {[Quiet EXCEPT !.entry_short = TRUE]},
          p \in FlightPrices : CandleDecide(1, 0, sig, p)
    \/ \E ok \in BOOLEAN : lib.quote[2] = 1 /\ CandleBalance(1, ok, lib.quote[1])
    \/ ExchangeFill(1)
    \/ 1 \in DOMAIN engines /\ CandleOrderDone(1, Filled(1), None)

FlightSpec == FlightInit /\ [][FlightNext]_vars

----------------------------------------------------------------------------
(* Two bots side by side.  Bot 1 is a live strategy bot whose loop loads,   *)
(* connects, handles trades and opens a position; bot 2 is a strategy or a  *)
(* webhook bot that is updated, deleted, started, stopped and sent alerts,  *)
(* and whose loop fails.                                                    *)

FrameRuns == 1..(NumBots + 2)

\* the engine object e belongs to bot b
Of(e, b) == e \in DOMAIN engines /\ engines[e].bot = b

FrameNext ==
    \/ \E a \in {CreateArgs("", "strategy", FALSE), CreateArgs("", "webhook", TRUE)} :
          /\ id_count < NumBots + 1
          /\ id_count = 0 => a.signal_source = "strategy"
          /\ CreateBot(a)
    \/ \E upd \in UpdateInputs : UpdateBot(2, "", upd)
    \/ DeleteBot(2, "")
    \/ \E b \in BotIds :
          /\ Cardinality(DOMAIN engines \cup DOMAIN tasks) < NumBots + 1
          /\ StartDispatch(b, "", "k1")
          /\ UNCHANGED boot
    \/ StopBot(2, "")
    \/ \E c \in stopping : StopBotResume(c)
    \/ \E action \in {"buy", "close"} :
          /\ 2 \in DOMAIN bots /\ bots[2].total_trades < MaxTrades
          /\ ExecuteWebhookSignal("tok2", action, <<100>>)
    \/ \E t \in FrameRuns : TaskStart(t)
    \/ \E t \in FrameRuns, ok \in BOOLEAN : TaskLoaded(t, ok, Lookback)
    \/ \E t \in FrameRuns, ok \in BOOLEAN : TaskConnected(t, ok)
    \/ \E t \in FrameRuns : Of(t, 1) /\ OnTrade(t, 100)
    \/ \E t \in FrameRuns : OnTradeBalance(t, TRUE, 1000)
    \/ \E t \in FrameRuns : TaskListenReturn(t)
    \/ \E t \in FrameRuns : TaskCancelled(t)
    \/ \E e \in FrameRuns : Of(e, 1) /\ CandleStart(e)
    \/ \E e \in FrameRuns :
          /\ e \in DOMAIN engines /\ Len(engines[e].history) < MaxTrades
          /\ engines[e].position.side = "none"
          /\ CandleWake(e, TRUE)
    \/ \E e \in FrameRuns :
          CandleDecide(e, 0, [Quiet EXCEPT !.entry_long = TRUE], 100)
    \/ \E e \in FrameRuns : CandleBalance(e, TRUE, 1000)
    \/ \E e \in FrameRuns : CandleOrderDone(e, TRUE, None)

FrameSpec == LoopInit /\ [][FrameNext]_vars

----------------------------------------------------------------------------
(* Process start: BotManager(), init_db(), auto_restart_bots()             *)
(* (app.py create_app and startup()).  Nothing else runs until startup()   *)
(* has returned, so each coroutine segment is one step.                    *)

\* ids of the rows found in the stores when the process starts (LoadSpec)
MaxStored == 2

\* ids of the rows found in bots.json when the process starts (RestartSpec)
MaxQueue == 4

\* a bot as an earlier run of the program left it
Persisted(bot_id, source, paper, status, auto) ==
    [BotConfig(bot_id) EXCEPT
        !.name = "n", !.strategy = "ma_crossover", !.symbol = "BTC_USDT",
        !.timeframe = "1h", !.params = "p", !.paper_mode = paper,
        !.signal_source = source,
        !.webhook_token = IF source = "webhook"
                          THEN "tok" \o ToString(bot_id) ELSE "",
        !.status = status, !.error_msg = "", !.auto_start = auto]

\* keys a row written before auto_start, user_id and the webhook fields
\* existed does not have
LegacyMissing == {"auto_start", "user_id", "signal_source", "webhook_token",
                  "trade_history", "max_drawdown_pct"}

LegacyRow(bot_id) ==
    LET row == bot_to_row(Persisted(bot_id, "strategy", TRUE, "running", FALSE))
    IN [f \in DOMAIN row \ LegacyMissing |-> row[f]]

\* the rows one id can have in a store
StoredRows(bot_id) ==
    {bot_to_row(Persisted(bot_id, "webhook", TRUE, "running", TRUE)),
     bot_to_row(Persisted(bot_id, "strategy", TRUE, "error", TRUE)),
     bot_to_row(Persisted(bot_id, "strategy", TRUE, "stopped", FALSE)),
     LegacyRow(bot_id)}

\* the rows of bots that were started before the shutdown
RestartRows(bot_id) ==
    {bot_to_row(Persisted(bot_id, "webhook", TRUE, "running", TRUE)),
     bot_to_row(Persisted(bot_id, "strategy", TRUE, "running", TRUE)),
     bot_to_row(Persisted(bot_id, "webhook", FALSE, "running", TRUE))}

\* every store content: some of the ids, each with one of its rows
Stores(ids, rows) ==
    UNION {[D -> UNION {rows[b] : b \in D}] : D \in SUBSET ids}

WellKeyed(store) == \A b \in DOMAIN store : store[b].bot_id = b

\* the loop of _load_bots_json / _load_bots_db over the rows
LoadRows_KeepStatus(rows) ==
    LET bs == [b \in DOMAIN rows |-> row_to_bot(rows[b])]
    IN [bots |-> bs, pending |-> {b \in DOMAIN bs : bs[b].auto_start}]

LoadRows(rows) ==
    LET bs == [b \in DOMAIN rows |->
                 [row_to_bot(rows[b]) EXCEPT !.status = "stopped"]]
    IN [bots |-> bs, pending |-> {b \in DOMAIN bs : bs[b].auto_start}]

BootUnchanged ==
    UNCHANGED <<running_tasks, running_engines, webhook_executors,
                webhook_positions, id_count, engines, tasks, detached,
                stopping, on_trade_defined, lib>>

\* BotManager.__init__: empty registry, then _load_bots_json; an unreadable
\* file is logged and leaves the registry empty
Construct(readable) ==
    /\ boot.pc = "new"
    /\ LET l == IF readable THEN LoadRows(json_store) ELSE LoadRows(EmptyMap)
       IN /\ bots' = l.bots
          /\ pending_restart' = l.pending
    /\ db_client' = FALSE
    /\ boot' = [boot EXCEPT !.pc = "constructed"]
    /\ ret' = Returned("__init__", 0, "", IF readable THEN "json" ELSE "empty",
                       "ok")
    /\ UNCHANGED <<json_store, db_store>>
    /\ BootUnchanged

\* startup() without SUPABASE_URL, or with a database that init_db() of the
\* connection module could not reach: BotManager.init_db is not called
SkipDb ==
    /\ boot.pc = "constructed"
    /\ boot' = [boot EXCEPT !.pc = "db_done"]
    /\ ret' = Returned("startup", 0, "", "None", "no_db")
    /\ UNCHANGED <<bots, pending_restart, db_client, json_store, db_store>>
    /\ BootUnchanged

InitDbOutcomes == {"session_failed", "select_failed", "ok"}

\* BotManager.init_db
InitDb(outcome) ==
    /\ boot.pc = "constructed"
    /\ IF outcome = "session_failed"
       THEN /\ db_client' = FALSE
            /\ UNCHANGED <<bots, pending_restart, json_store>>
       ELSE /\ db_client' = TRUE
            /\ LET l == IF outcome = "ok" THEN LoadRows(db_store)
                        ELSE [bots |-> bots, pending |-> pending_restart]
               IN /\ bots' = l.bots
                  /\ pending_restart' = l.pending
            /\ json_store' = SavedJson(bots')
    /\ boot' = [boot EXCEPT !.pc = "db_done"]
    /\ ret' = Returned("init_db", 0, "", "None", outcome)
    /\ UNCHANGED db_store
    /\ BootUnchanged

\* list(self._pending_restart): the ids of the set in some order
Orders(S) ==
    {q \in [1..Cardinality(S) -> S] : \A x, y \in DOMAIN q : q[x] = q[y] => x = y}

\* keys app_config.pionex can carry
ConfigKeys == {"", "k1"}

\* `delay = 3.0 + i * 2.0`
StaggerDelay_FromOne(i) == 3 + (i + 1) * 2

StaggerDelay(i) == 3 + i * 2

\* the loop of auto_restart_bots has reached the index after boot.i
Advance(b, i) ==
    [b EXCEPT !.i = i + 1,
              !.pc = IF i + 1 = Len(b.queue) THEN "returned" ELSE "head"]

\* auto_restart_bots up to the loop: the early return, or the snapshot of
\* the queue and its clearing
RestartBegin(order, key) ==
    /\ boot.pc = "db_done"
    /\ IF pending_restart = {}
       THEN /\ boot' = [boot EXCEPT !.pc = "returned"]
            /\ UNCHANGED pending_restart
       ELSE /\ boot' = [boot EXCEPT !.pc = "head", !.queue = order, !.i = 0,
                                    !.key = key]
            /\ pending_restart' = {}
    /\ ret' = Returned("auto_restart_bots", 0, "", "None", "begin")
    /\ UNCHANGED <<bots, db_client, json_store, db_store>>
    /\ BootUnchanged

\* one iteration up to `await asyncio.sleep(delay)`; an id that is no longer
\* in _bots is skipped before any delay
RestartSleep ==
    /\ boot.pc = "head"
    /\ boot.i > 0
    /\ LET bot_id == boot.queue[boot.i + 1] IN
       IF bot_id \notin DOMAIN bots
       THEN boot' = Advance(boot, boot.i)
       ELSE boot' = [boot EXCEPT
                       !.pc = "try",
                       !.log = Append(@, [ev |-> "sleep", i |-> boot.i,
                                          delay |-> StaggerDelay(boot.i)])]
    /\ ret' = Suspended
    /\ UNCHANGED <<bots, pending_restart, db_client, json_store, db_store>>
    /\ BootUnchanged

\* what auto_restart_bots does with the value the start call returned
Recorded_StopsAtFailure(b, bot_id, ok) ==
    LET b1 == [b EXCEPT !.log = Append(@, [ev |-> "start", i |-> b.i,
                                           bot |-> bot_id, ok |-> ok])]
    IN IF ok THEN Advance([b1 EXCEPT !.restarted = Append(@, bot_id)], b.i)
       ELSE [b1 EXCEPT !.failed = Append(@, bot_id), !.pc = "returned"]

Recorded(b, bot_id, ok) ==
    LET b1 == [b EXCEPT !.log = Append(@, [ev |-> "start", i |-> b.i,
                                           bot |-> bot_id, ok |-> ok])]
    IN IF ok THEN Advance([b1 EXCEPT !.restarted = Append(@, bot_id)], b.i)
       ELSE Advance([b1 EXCEPT !.failed = Append(@, bot_id)], b.i)

\* the rest of the iteration: the key lookup (crud.get_user_api_key does not
\* exist, so the import fails and the keys stay empty), the start call, which
\* runs to its return without suspending, and the record of its outcome
RestartAttempt ==
    /\ boot.pc = "try" \/ (boot.pc = "head" /\ boot.i = 0)
    /\ LET bot_id == boot.queue[boot.i + 1] IN
       IF bot_id \notin DOMAIN bots
       THEN /\ boot' = Advance(boot, boot.i)
            /\ ret' = Suspended
            /\ UNCHANGED <<bots, running_tasks, running_engines,
                           webhook_executors, webhook_positions, db_client,
                           json_store, db_store, id_count, engines, tasks,
                           detached, stopping, on_trade_defined, lib>>
       ELSE /\ StartDispatch(bot_id, "", boot.key)
            /\ boot' = Recorded(boot, bot_id, ret'.result = "True")
    /\ UNCHANGED pending_restart

LoadInit ==
    /\ bots = EmptyMap
    /\ running_tasks = EmptyMap
    /\ running_engines = EmptyMap
    /\ webhook_executors = EmptyMap
    /\ webhook_positions = EmptyMap
    /\ pending_restart = {}
    /\ db_client = FALSE
    /\ json_store \in Stores(1..MaxStored, [b \in 1..MaxStored |-> StoredRows(b)])
    /\ db_store \in Stores(1..MaxStored, [b \in 1..MaxStored |-> StoredRows(b)])
    /\ WellKeyed(json_store) /\ WellKeyed(db_store)
    /\ id_count = 0
    /\ engines = EmptyMap
    /\ tasks = EmptyMap
    /\ detached = EmptyMap
    /\ stopping = {}
    /\ boot = [Serving EXCEPT !.pc = "new"]
    /\ on_trade_defined = FALSE
    /\ lib = NoLib
    /\ ret = [op |-> "init", bot |-> 0, user |-> "", result |-> "None",
              cause |-> "ok", was |-> "", owner |-> ""]

LoadNext ==
    \/ \E readable \in BOOLEAN : Construct(readable)
    \/ SkipDb
    \/ \E outcome \in InitDbOutcomes : InitDb(outcome)

LoadSpec == LoadInit /\ [][LoadNext]_vars

RestartInit ==
    /\ bots = EmptyMap
    /\ running_tasks = EmptyMap
    /\ running_engines = EmptyMap
    /\ webhook_executors = EmptyMap
    /\ webhook_positions = EmptyMap
    /\ pending_restart = {}
    /\ db_client = FALSE
    /\ json_store \in Stores(1..MaxQueue, [b \in 1..MaxQueue |-> RestartRows(b)])
    /\ WellKeyed(json_store)
    /\ db_store = EmptyMap
    /\ id_count = 0
    /\ engines = EmptyMap
    /\ tasks = EmptyMap
    /\ detached = EmptyMap
    /\ stopping = {}
    /\ boot = [Serving EXCEPT !.pc = "new"]
    /\ on_trade_defined = FALSE
    /\ lib = NoLib
    /\ ret = [op |-> "init", bot |-> 0, user |-> "", result |-> "None",
              cause |-> "ok", was |-> "", owner |-> ""]

RestartNext ==
    \/ Construct(TRUE)
    \/ SkipDb
    \/ \E order \in Orders(pending_restart), key \in ConfigKeys :
          RestartBegin(order, key)
    \/ RestartSleep
    \/ RestartAttempt

RestartSpec == RestartInit /\ [][RestartNext]_vars

----------------------------------------------------------------------------
(* A process that serves one bot, exits, and is started again over the     *)
(* rows it left in the stores.                                             *)

\* the process ends and a new one starts: what was in memory is gone, the
\* file and the table stay; lib keeps the records the old process held
Shutdown ==
    /\ boot.pc = "serving"
    /\ lib = NoLib
    /\ DOMAIN bots # {}
    /\ lib' = [kind |-> "exited", bots |-> bots]
    /\ bots' = EmptyMap
    /\ running_tasks' = EmptyMap
    /\ running_engines' = EmptyMap
    /\ webhook_executors' = EmptyMap
    /\ webhook_positions' = EmptyMap
    /\ pending_restart' = {}
    /\ db_client' = FALSE
    /\ engines' = EmptyMap
    /\ tasks' = EmptyMap
    /\ detached' = EmptyMap
    /\ stopping' = {}
    /\ boot' = [Serving EXCEPT !.pc = "new"]
    /\ ret' = Returned("exit", 0, "", "None", "ok")
    /\ UNCHANGED <<json_store, db_store, id_count, on_trade_defined>>

PersistNext ==
    \/ \E a \in HistoryCreateInputs :
          boot.pc = "serving" /\ id_count < 1 /\ CreateBot(a)
    \/ /\ boot.pc = "serving"
       /\ 1 \in DOMAIN bots /\ bots[1].signal_source # "webhook"
       /\ StartBot(1, "k1")
       /\ UNCHANGED boot
    \/ /\ boot.pc = "serving"
       /\ 1 \in DOMAIN bots /\ bots[1].signal_source = "webhook"
       /\ StartWebhookBot(1, "", "k1")
       /\ UNCHANGED boot
    \/ boot.pc = "serving" /\ StopBot(1, "")
    \/ \E action \in {"buy", "sell"}, price \in {<<100>>, <<110>>} :
          /\ boot.pc = "serving"
          /\ \A b \in DOMAIN bots : bots[b].total_trades < MaxSignals
          /\ ExecuteWebhookSignal("tok1", action, price)
    \/ Shutdown
    \/ \E readable \in BOOLEAN : Construct(readable)
    \/ SkipDb
    \/ \E outcome \in InitDbOutcomes : InitDb(outcome)

PersistSpec == Init /\ [][PersistNext]_vars

----------------------------------------------------------------------------
(* The classes of trading/*.py driven on their own, as a caller of the     *)
(* library drives them: no BotManager is constructed.                      *)

ManagerVars == <<running_engines, webhook_executors, webhook_positions,
                 pending_restart, db_client, id_count, stopping, boot,
                 on_trade_defined>>

NoManager ==
    /\ bots = EmptyMap
    /\ running_tasks = EmptyMap
    /\ running_engines = EmptyMap
    /\ webhook_executors = EmptyMap
    /\ webhook_positions = EmptyMap
    /\ pending_restart = {}
    /\ db_client = FALSE
    /\ json_store = EmptyMap
    /\ db_store = EmptyMap
    /\ id_count = 0
    /\ engines = EmptyMap
    /\ tasks = EmptyMap
    /\ detached = EmptyMap
    /\ stopping = {}
    /\ boot = Serving
    /\ on_trade_defined = FALSE
    /\ ret = [op |-> "init", bot |-> 0, user |-> "", result |-> "None",
              cause |-> "ok", was |-> "", owner |-> ""]

----------------------------------------------------------------------------
(* PositionManager: any sequence of open_position and close_position over  *)
(* two symbols (trading/position_manager.py).                              *)

Symbols == {"BTC_USDT", "ETH_USDT"}

PositionSides == {"long", "short"}

PositionPrices == {100, 110}

\* PositionManager()
NewPositionManager == [kind |-> "PositionManager", positions |-> EmptyMap,
                       trade_history |-> <<>>]

\* PositionManager.open_position: self._positions[symbol] = pos
PositionOpened(pm, symbol, side, entry_price, size) ==
    [pm EXCEPT !.positions = Put(@, symbol, open_position(side, entry_price, size))]

\* PositionManager.close_position: pop the symbol, append the trade
PositionClosed_KeepsSlot(pm, symbol, exit_price) ==
    IF symbol \notin DOMAIN pm.positions THEN pm
    ELSE [pm EXCEPT !.trade_history =
                       Append(@, [symbol |-> symbol]
                                 @@ ClosedTrade(pm.positions[symbol], exit_price))]

PositionClosed(pm, symbol, exit_price) ==
    IF symbol \notin DOMAIN pm.positions THEN pm
    ELSE [pm EXCEPT !.positions = Pop(@, symbol),
                    !.trade_history =
                       Append(@, [symbol |-> symbol]
                                 @@ ClosedTrade(pm.positions[symbol], exit_price))]

\* a call of open_position(symbol, side, entry_price, size): returns the Position
OpenPosition(symbol, side, entry_price, size) ==
    /\ lib' = PositionOpened(lib, symbol, side, F(entry_price), F(size))
    /\ ret' = Returned("open_position", 0, "", "Position", symbol)
    /\ UNCHANGED <<bots, tasks, detached, db_store, json_store, running_tasks,
                   engines, ManagerVars>>

\* a call of close_position(symbol, exit_price): returns the trade or None
ClosePosition(symbol, exit_price) ==
    /\ symbol \in DOMAIN lib.positions => Len(lib.trade_history) < MaxCloses
    /\ lib' = PositionClosed(lib, symbol, F(exit_price))
    /\ ret' = Returned("close_position", 0, "",
                       IF symbol \in DOMAIN lib.positions THEN "trade" ELSE "None",
                       symbol)
    /\ UNCHANGED <<bots, tasks, detached, db_store, json_store, running_tasks,
                   engines, ManagerVars>>

PositionInit == NoManager /\ lib = NewPositionManager

PositionNext ==
    \/ \E symbol \in Symbols, side \in PositionSides, p \in PositionPrices :
          OpenPosition(symbol, side, p, 1)
    \/ \E symbol \in Symbols, p \in PositionPrices : ClosePosition(symbol, p)

PositionSpec == PositionInit /\ [][PositionNext]_vars

----------------------------------------------------------------------------
(* RiskManager: any sequence of update, should_halt, check_stop_loss,      *)
(* check_take_profit and reset on one manager (trading/risk_manager.py).   *)

\* RiskConfig.max_drawdown_pct
DrawdownLimits == {20, 25, 30}

\* RiskConfig.default_sl_pct and default_tp_pct
Thresholds == {None, <<2>>, <<10>>}

InitialCapital == 10000

\* portfolio values handed to update()
Capitals == {7000, 8000, 9000, 12000}

RiskEntries == {100}

RiskCurrents == {90, 97, 98, 99, 102, 110}

\* True / False as ret carries them
BoolText(b) == IF b THEN "True" ELSE "False"

\* update(current_capital); lib.updates logs the capitals supplied since
\* construction or the last reset
Update(current_capital) ==
    /\ Len(lib.updates) < MaxUpdates
    /\ lib' = [lib EXCEPT !.rm = RiskUpdate(@, F(current_capital)),
                          !.updates = Append(@, current_capital)]
    /\ ret' = Returned("update", 0, "", "None", "ok")
    /\ UNCHANGED <<bots, tasks, detached, db_store, json_store, running_tasks,
                   engines, ManagerVars>>

\* should_halt()
ShouldHalt ==
    /\ ret' = Returned("should_halt", 0, "", BoolText(lib.rm.halted), "ok")
    /\ UNCHANGED <<bots, tasks, detached, db_store, json_store, running_tasks,
                   engines, ManagerVars, lib>>

\* check_stop_loss(entry_price, current_price, side)
CheckStopLoss(entry_price, current_price, side) ==
    /\ ret' = Returned("check_stop_loss", 0, "",
                       BoolText(check_stop_loss(lib.rm, F(entry_price),
                                                F(current_price), side)), side)
    /\ UNCHANGED <<bots, tasks, detached, db_store, json_store, running_tasks,
                   engines, ManagerVars, lib>>

\* check_take_profit(entry_price, current_price, side)
CheckTakeProfit(entry_price, current_price, side) ==
    /\ ret' = Returned("check_take_profit", 0, "",
                       BoolText(check_take_profit(lib.rm, F(entry_price),
                                                  F(current_price), side)), side)
    /\ UNCHANGED <<bots, tasks, detached, db_store, json_store, running_tasks,
                   engines, ManagerVars, lib>>

\* reset()
Reset ==
    /\ lib' = [lib EXCEPT !.rm = RiskReset(@), !.updates = <<>>]
    /\ ret' = Returned("reset", 0, "", "None", "ok")
    /\ UNCHANGED <<bots, tasks, detached, db_store, json_store, running_tasks,
                   engines, ManagerVars>>

\* RiskManager(RiskConfig(...), initial_capital)
RiskInit ==
    /\ NoManager
    /\ \E limit \in DrawdownLimits, sl \in Thresholds, tp \in Thresholds :
          lib = [kind |-> "RiskManager",
                 rm |-> NewRisk(limit, sl, tp, InitialCapital),
                 updates |-> <<>>]

RiskNext ==
    \/ \E c \in Capitals : Update(c)
    \/ ShouldHalt
    \/ \E e \in RiskEntries, c \in RiskCurrents, side \in PositionSides :
          CheckStopLoss(e, c, side)
    \/ \E e \in RiskEntries, c \in RiskCurrents, side \in PositionSides :
          CheckTakeProfit(e, c, side)
    \/ Reset

RiskSpec == RiskInit /\ [][RiskNext]_vars

----------------------------------------------------------------------------
(* PaperExecutor: any sequence of set_price and place_market_order on one  *)
(* symbol (trading/paper_executor.py).                                     *)

InitialBalances == {1000, 2001}

PaperPrices == {100, 110}

OrderSides == {"BUY", "SELL"}

OrderSizes == {1, 10, 20}

\* set_price(symbol, price)
SetPrice(price) ==
    /\ lib' = [lib EXCEPT !.px.price = F(price)]
    /\ ret' = Returned("set_price", 0, "", "None", "ok")
    /\ UNCHANGED <<bots, tasks, detached, db_store, json_store, running_tasks,
                   engines, ManagerVars>>

\* place_market_order(symbol, side, size): returns the order or raises
PlaceMarketOrder(side, size) ==
    /\ lib.px.order_counter < MaxOrders
    /\ IF PaperRaises(lib.px, side, F(size))
       THEN /\ lib' = [lib EXCEPT !.px = PaperFailed(@)]
            /\ ret' = Returned("place_market_order", 0, "", "raised", side)
       ELSE /\ lib' = [lib EXCEPT !.px = PaperFilled(@, side, F(size))]
            /\ ret' = Returned("place_market_order", 0, "", "order", side)
    /\ UNCHANGED <<bots, tasks, detached, db_store, json_store, running_tasks,
                   engines, ManagerVars>>

\* PaperExecutor(initial_balance)
PaperInit ==
    /\ NoManager
    /\ \E initial_balance \in InitialBalances :
          lib = [kind |-> "PaperExecutor", px |-> NewPaper(initial_balance)]

PaperNext ==
    \/ \E p \in PaperPrices : SetPrice(p)
    \/ \E side \in OrderSides, size \in OrderSizes : PlaceMarketOrder(side, size)

PaperSpec == PaperInit /\ [][PaperNext]_vars

----------------------------------------------------------------------------
(* PionexExecutor over a PionexClient: any sequence of place_market_order  *)
(* and place_limit_order (trading/pionex_executor.py).  lib.requests is    *)
(* the bodies PionexClient.new_order has posted to /api/v1/trade/order.    *)

LiveSymbols == {"BTC_USDT", "BTC_USDT_PERP"}

LiveSizes == {F(1), Frac(19, 2)}

LivePrices == {F(100)}

\* "_PERP" in symbol
IsPerp(symbol) == symbol = "BTC_USDT_PERP"

\* str(x) of the floats explored
FloatStr(x) ==
    IF x = F(1) THEN "1.0" ELSE IF x = Frac(19, 2) THEN "9.5" ELSE "100.0"

\* PionexClient.new_order: the body posted to the exchange
NewOrder(x, symbol, side, order_type, size, price) ==
    [x EXCEPT !.requests =
        Append(@, [symbol |-> symbol, side |-> side, type |-> order_type,
                   size |-> size, price |-> price])]

\* PionexExecutor.place_market_order(symbol, side, size); the exchange accepts
\* the order or answers with an error (PionexAPIError)
PlaceLiveMarketOrder(symbol, side, size, accepted) ==
    /\ Len(lib.requests) < MaxOrders
    /\ lib' = NewOrder(lib, symbol, side, "MARKET", FloatStr(size), "")
    /\ ret' = Returned("place_market_order", 0, "",
                       IF accepted THEN "order" ELSE "raised", symbol)
    /\ UNCHANGED <<bots, tasks, detached, db_store, json_store, running_tasks,
                   engines, ManagerVars>>

\* PionexExecutor.place_limit_order(symbol, side, size, price)
PlaceLiveLimitOrder(symbol, side, size, price, accepted) ==
    /\ Len(lib.requests) < MaxOrders
    /\ lib' = NewOrder(lib, symbol, side, "LIMIT", FloatStr(size), FloatStr(price))
    /\ ret' = Returned("place_limit_order", 0, "",
                       IF accepted THEN "order" ELSE "raised", symbol)
    /\ UNCHANGED <<bots, tasks, detached, db_store, json_store, running_tasks,
                   engines, ManagerVars>>

\* PionexExecutor(client)
LiveInit == NoManager /\ lib = [kind |-> "PionexExecutor", requests |-> <<>>]

LiveNext ==
    \/ \E symbol \in LiveSymbols, side \in OrderSides, size \in LiveSizes,
          accepted \in BOOLEAN :
          PlaceLiveMarketOrder(symbol, side, size, accepted)
    \/ \E symbol \in LiveSymbols, side \in OrderSides, size \in LiveSizes,
          price \in LivePrices, accepted \in BOOLEAN :
          PlaceLiveLimitOrder(symbol, side, size, price, accepted)

LiveSpec == LiveInit /\ [][LiveNext]_vars

----------------------------------------------------------------------------
(* PionexWebSocket: connect, subscribe_*, listen and close called by the   *)
(* owner of the stream, the server's messages and the connection's losses  *)
(* (data/pionex_ws.py).                                                    *)
(* sock: "none" (self._ws is None), "open", "dead" (the connection is      *)
(* closed: recv and send raise ConnectionClosed); sent: the topics          *)
(* subscribed on the present connection; lpc: where listen() is; i: the     *)
(* index of the for loop of _reconnect; cpc: where close() is; closed and   *)
(* restored record that close() was called and that _reconnect connected;   *)
(* closed_live that close() was called on an open connection with listen()  *)
(* in progress.                                                             *)

Topics == {"TRADE", "DEPTH"}

NewStream ==
    [kind |-> "PionexWebSocket", running |-> FALSE, sock |-> "none",
     subscriptions |-> <<>>, sent |-> {}, lpc |-> "idle", i |-> 0,
     cpc |-> "idle", closed |-> FALSE, closed_live |-> FALSE,
     restored |-> FALSE]

\* `while self._running and self._ws:` - wait in recv() or return
LoopHead(x) ==
    [x EXCEPT !.lpc = IF x.running /\ x.sock # "none" THEN "recv" ELSE "done",
              !.i = 0]

\* the for loop of _reconnect: its next iteration, or back to listen()
Replay(x, i) ==
    IF i <= Len(x.subscriptions) THEN [x EXCEPT !.lpc = "resend", !.i = i]
    ELSE LoopHead(x)

\* _reconnect after `await self.connect()` returned
\* _reconnect that goes back to listen() once it is connected
AfterConnect_NoReplay(x) ==
    LoopHead([x EXCEPT !.sock = "open", !.running = TRUE, !.sent = {},
                       !.restored = TRUE,
                       !.cpc = IF @ = "closing" THEN "closing_old" ELSE @])

AfterConnect(x) ==
    Replay([x EXCEPT !.sock = "open", !.running = TRUE, !.sent = {},
                     !.restored = TRUE,
                     !.cpc = IF @ = "closing" THEN "closing_old" ELSE @], 1)

StreamFrame == <<bots, tasks, detached, db_store, json_store, running_tasks,
                 engines, ManagerVars>>

\* connect() called by the owner before listen(); a stream that was closed
\* is not used again (the engine makes a new one per start)
StreamConnect(ok) ==
    /\ lib.lpc = "idle" /\ lib.sock = "none" /\ ~lib.closed
    /\ lib' = IF ok THEN [lib EXCEPT !.sock = "open", !.running = TRUE] ELSE lib
    /\ ret' = Returned("connect", 0, "", IF ok THEN "None" ELSE "raised", "")
    /\ UNCHANGED StreamFrame

\* subscribe_trade / subscribe_depth: the message is kept, then sent
Subscribe(topic) ==
    /\ Len(lib.subscriptions) < MaxSubscriptions
    /\ lib' = [lib EXCEPT !.subscriptions = Append(@, topic),
                          !.sent = IF lib.sock = "open" THEN @ \cup {topic} ELSE @]
    /\ ret' = Returned("subscribe", 0, "",
                       IF lib.sock = "open" THEN "None" ELSE "raised", topic)
    /\ UNCHANGED StreamFrame

\* listen() is called
Listen ==
    /\ lib.lpc = "idle"
    /\ lib' = LoopHead(lib)
    /\ ret' = IF lib'.lpc = "done" THEN Returned("listen", 0, "", "None", "")
              ELSE Suspended
    /\ UNCHANGED StreamFrame

\* the server sends a message of a topic subscribed on this connection and
\* listen() dispatches it to the callbacks
Message(topic) ==
    /\ lib.lpc = "recv" /\ lib.sock = "open" /\ topic \in lib.sent
    /\ lib' = LoopHead(lib)
    /\ ret' = Returned("_dispatch", 0, "", "None", topic)
    /\ UNCHANGED StreamFrame

\* no message for 30 seconds: asyncio.TimeoutError, `continue`
Timeout ==
    /\ lib.lpc = "recv" /\ lib.sock = "open"
    /\ lib' = LoopHead(lib)
    /\ ret' = IF lib'.lpc = "done" THEN Returned("listen", 0, "", "None", "")
              ELSE Returned("wait_for", 0, "", "raised", "timeout")
    /\ UNCHANGED StreamFrame

\* the connection is lost
Drop ==
    /\ lib.sock = "open"
    /\ lib' = [lib EXCEPT !.sock = "dead"]
    /\ ret' = Suspended
    /\ UNCHANGED StreamFrame

\* recv() raises ConnectionClosed: _reconnect() starts with sleep(5)
RecvClosed ==
    /\ lib.lpc = "recv" /\ lib.sock = "dead"
    /\ lib' = [lib EXCEPT !.lpc = "sleep"]
    /\ ret' = Returned("recv", 0, "", "raised", "ConnectionClosed")
    /\ UNCHANGED StreamFrame

\* sleep(5) is over: `await self.connect()`
SleepDone ==
    /\ lib.lpc = "sleep"
    /\ lib' = [lib EXCEPT !.lpc = "connect"]
    /\ ret' = Suspended
    /\ UNCHANGED StreamFrame

\* websockets.connect returned or raised ("Reconnect failed")
Reconnected(ok) ==
    /\ lib.lpc = "connect"
    /\ lib' = IF ok THEN AfterConnect(lib) ELSE LoopHead(lib)
    /\ ret' = Returned("_reconnect", 0, "", IF ok THEN "connected" ELSE "failed", "")
    /\ UNCHANGED StreamFrame

\* one iteration of `for msg in self._subscriptions`: send, or `pass`
Resend ==
    /\ lib.lpc = "resend"
    /\ lib' = Replay([lib EXCEPT !.sent = IF lib.sock = "open"
                                         THEN @ \cup {lib.subscriptions[lib.i]}
                                         ELSE @],
                     lib.i + 1)
    /\ ret' = Returned("send", 0, "",
                       IF lib.sock = "open" THEN "None" ELSE "raised",
                       lib.subscriptions[lib.i])
    /\ UNCHANGED StreamFrame

\* close(): _running = False, then `await self._ws.close()`
Close ==
    /\ lib.cpc = "idle"
    /\ lib' = [lib EXCEPT !.running = FALSE, !.closed = TRUE,
                          !.closed_live = lib.sock = "open" /\
                                          lib.lpc \notin {"idle", "done"},
                          !.cpc = IF lib.sock = "none" THEN "done" ELSE "closing"]
    /\ ret' = IF lib.sock = "none" THEN Returned("close", 0, "", "None", "")
              ELSE Suspended
    /\ UNCHANGED StreamFrame

\* the connection close() was called on is closed; "closing_old": it is the
\* one _reconnect has replaced meanwhile
CloseDone ==
    /\ lib.cpc \in {"closing", "closing_old"}
    /\ lib' = [lib EXCEPT !.cpc = "done",
                          !.sock = IF lib.cpc = "closing" THEN "dead" ELSE @]
    /\ ret' = Returned("close", 0, "", "None", "")
    /\ UNCHANGED StreamFrame

StreamInit == NoManager /\ lib = NewStream

StreamNext ==
    \/ \E ok \in BOOLEAN : StreamConnect(ok)
    \/ \E topic \in Topics : Subscribe(topic)
    \/ Listen
    \/ \E topic \in Topics : Message(topic)
    \/ Timeout
    \/ Drop
    \/ RecvClosed
    \/ SleepDone
    \/ \E ok \in BOOLEAN : Reconnected(ok)
    \/ Resend
    \/ Close
    \/ CloseDone

StreamSpec == StreamInit /\ [][StreamNext]_vars

----------------------------------------------------------------------------
(* LiveTradingEngine._candle_loop against the wall clock (engine.py:121-133). *)
(* lib is the loop: now is datetime.now(timezone.utc).timestamp() in whole   *)
(* seconds, last_signal_time the engine's _last_signal_time, evaluated the   *)
(* periods _evaluate_signals was called for, in the order of the calls.      *)

\* Timeframe.minutes
Minutes(timeframe) ==
    CASE timeframe = "1m" -> 1
      [] timeframe = "5m" -> 5
      [] timeframe = "15m" -> 15
      [] timeframe = "30m" -> 30
      [] timeframe = "1h" -> 60
      [] timeframe = "4h" -> 240
      [] timeframe = "1d" -> 1440

\* `await asyncio.sleep(10)`
PollSeconds == 10

\* `interval_seconds = self.tf.minutes * 60`
IntervalSeconds(timeframe) == Minutes(timeframe) * 60

\* `int(now // interval_seconds) * interval_seconds`
CurrentPeriod(now, timeframe) ==
    (now \div IntervalSeconds(timeframe)) * IntervalSeconds(timeframe)

\* `if current_period > self._last_signal_time:`
\* a period counts as new when it is not older than the last one evaluated
IsNewPeriod_OrSame(current_period, last_signal_time) ==
    current_period >= last_signal_time

IsNewPeriod(current_period, last_signal_time) ==
    current_period > last_signal_time

NewCandleLoop(timeframe) ==
    [kind |-> "candle_loop", timeframe |-> timeframe, running |-> TRUE,
     now |-> ClockStart, last_signal_time |-> 0, evaluated |-> <<>>,
     pc |-> "sleep"]

\* `while self._running:`
PollHead(x) == [x EXCEPT !.pc = IF x.running THEN "sleep" ELSE "done"]

PeriodFrame == <<bots, tasks, detached, db_store, json_store, running_tasks,
                 engines, running_engines, webhook_executors, webhook_positions,
                 pending_restart, db_client, id_count, stopping, boot,
                 on_trade_defined>>

\* sleep(10) is over `late` seconds after it was due: the period is computed
\* and, when it is new, recorded and _evaluate_signals is entered
PollTick(late) ==
    /\ lib.pc = "sleep" /\ lib.now + PollSeconds + late <= MaxClock
    /\ LET now == lib.now + PollSeconds + late
           current_period == CurrentPeriod(now, lib.timeframe)
       IN IF IsNewPeriod(current_period, lib.last_signal_time)
          THEN /\ lib' = [lib EXCEPT !.now = now,
                                     !.last_signal_time = current_period,
                                     !.evaluated = Append(@, current_period),
                                     !.pc = "evaluate"]
               /\ ret' = Suspended
          ELSE /\ lib' = PollHead([lib EXCEPT !.now = now])
               /\ ret' = Returned("_candle_loop", 0, "", "same_period", "")
    /\ UNCHANGED PeriodFrame

\* _evaluate_signals returns after `took` seconds, or raises
EvaluateDone(took, raised) ==
    /\ lib.pc = "evaluate" /\ lib.now + took <= MaxClock
    /\ lib' = IF raised THEN [lib EXCEPT !.now = @ + took, !.pc = "done"]
              ELSE PollHead([lib EXCEPT !.now = @ + took])
    /\ ret' = Returned("_evaluate_signals", 0, "",
                       IF raised THEN "exception" ELSE "None", "")
    /\ UNCHANGED PeriodFrame

\* the wall clock is set back by `back` seconds while the loop sleeps
ClockSetBack(back) ==
    /\ lib.pc = "sleep" /\ lib.now - back >= ClockStart
    /\ lib' = [lib EXCEPT !.now = @ - back]
    /\ ret' = Suspended
    /\ UNCHANGED PeriodFrame

\* stop(): `self._running = False`
LoopStopped ==
    /\ lib.running /\ lib.pc # "done"
    /\ lib' = [lib EXCEPT !.running = FALSE]
    /\ ret' = Suspended
    /\ UNCHANGED PeriodFrame

\* how late a sleep ends
Lateness == {0, 20, 50, 110}

PeriodInit ==
    /\ NoManager
    /\ \E timeframe \in {"1m", "5m"} : lib = NewCandleLoop(timeframe)

PeriodNext ==
    \/ \E late \in Lateness : PollTick(late)
    \/ \E took \in {0, 70}, raised \in BOOLEAN : EvaluateDone(took, raised)
    \/ \E back \in {60, 300} : ClockSetBack(back)
    \/ LoopStopped

PeriodSpec == PeriodInit /\ [][PeriodNext]_vars

----------------------------------------------------------------------------
(* Properties *)

Rejected == {"False", "None"}

Registered(bot_id) ==
    bot_id \in DOMAIN running_engines \/ bot_id \in DOMAIN running_tasks
    \/ bot_id \in DOMAIN webhook_executors \/ bot_id \in DOMAIN webhook_positions

\* C1: start_bot on an existing bot that is not running, in paper mode and
\* with a registered strategy returns True and leaves the bot running with
\* auto_start set, the trade callback registered on its engine, and an engine
\* and a task handle in the registry.
C1_StartBotSucceeds ==
    (/\ ret.op = "start_bot"
     /\ ret.cause \notin {"not_found", "running"}
     /\ bots[ret.bot].paper_mode
     /\ bots[ret.bot].strategy \in Registry)
    => /\ ret.result = "True"
       /\ bots[ret.bot].status = "running"
       /\ bots[ret.bot].auto_start
       /\ ret.bot \in DOMAIN running_engines
       /\ engines[running_engines[ret.bot]].callback
       /\ ret.bot \in DOMAIN running_tasks

\* C4: stop_bot on an existing bot, whatever its status (running, stopped,
\* error), returns True and ends with status stopped, auto_start false and no
\* handle registered for the id; on a bot that is already stopped it leaves
\* the status as it is.
C4_StopEndsStopped ==
    (ret.op = "stop_bot" /\ ret.cause = "ok")
    => /\ ret.result = "True"
       /\ ret.was \in {"running", "stopped", "error"}
       /\ ret.bot \in DOMAIN bots
       /\ bots[ret.bot].status = "stopped"
       /\ ~bots[ret.bot].auto_start
       /\ ~Registered(ret.bot)

\* stop_bot has acted on a bot in status error whose engine was still registered
C4_Witness ==
    /\ ret.op = "stop_bot" /\ ret.result = "True" /\ ret.was = "error"
    /\ bots[ret.bot].status = "stopped"
    /\ bots[ret.bot].signal_source = "strategy"

\* the fields of a BotConfig that configure the bot (everything but runtime
\* status and statistics)
ConfigFields ==
    {"bot_id", "user_id", "name", "strategy", "symbol", "timeframe", "capital",
     "params", "paper_mode", "sl_pct", "tp_pct", "max_drawdown_pct",
     "created_at", "signal_source", "webhook_token"}

Config(bot) == [f \in ConfigFields |-> bot[f]]

Registry4 == <<bots, running_tasks, running_engines, webhook_executors,
               webhook_positions, json_store, db_store, engines, tasks>>

\* C5: update_bot and delete_bot succeed only on a bot that is not running;
\* on a running bot they fail and leave the records and the registry as they
\* were, so a running bot is never removed and none of its configuration
\* fields ever changes.
C5_RunningBotImmutable ==
    /\ [](ret.op \in {"update_bot", "delete_bot"} /\ ret.was = "running"
            => ret.result \in Rejected /\ ret.cause # "ok")
    /\ [][ret'.op \in {"update_bot", "delete_bot"} /\ ret'.was = "running"
            => UNCHANGED Registry4]_vars
    /\ [][\A b \in DOMAIN bots :
            bots[b].status = "running"
            => b \in DOMAIN bots' /\ Config(bots'[b]) = Config(bots[b])]_vars

\* update_bot or delete_bot was refused because the bot is running
C5_Witness ==
    /\ ret.op \in {"update_bot", "delete_bot"}
    /\ ret.cause = "running" /\ ret.was = "running"
    /\ ret.bot \in DOMAIN bots /\ bots[ret.bot].status = "running"

Mismatch == ret.owner # "" /\ ret.user # ret.owner

\* C6: update_bot, delete_bot and stop_bot called with a user_id that differs
\* from the non-empty owner id of the bot are rejected.
C6_AnyOtherUserRejected ==
    (ret.op \in {"update_bot", "delete_bot", "stop_bot"} /\ ret.cause # "not_found"
     /\ Mismatch)
    => ret.result \in Rejected

\* C7: the result update_bot / delete_bot give a caller who is not the owner
\* differs from the result they give when no bot has that id.
C7_NotOwnerDistinctFromNotFound ==
    /\ (ret.op = "delete_bot" /\ ret.cause = "not_owner")
         => ret.result # DeleteResult("not_found")
    /\ (ret.op = "update_bot" /\ ret.cause = "not_owner")
         => ret.result # UpdateResult("not_found")

\* the engines stop_bot has returned for: the loop was spawned, engine.stop()
\* cleared _running, and no stop call is still suspended on it
StopReturned(e) ==
    /\ engines[e].cpc # "none"
    /\ ~engines[e].running
    /\ \A c \in stopping : c.engine # e

\* C2: once stop_bot has returned for a running strategy bot its loop sends
\* no further order to the execution backend and makes no further position
\* transition, even if an evaluation was in progress.
C2_NoOrderAfterStop ==
    [][\A e \in DOMAIN engines :
         (StopReturned(e) /\ e \in DOMAIN engines')
         => /\ engines'[e].position = engines[e].position
            /\ (engines'[e].cpc = "order" => engines[e].cpc = "order")]_vars

\* what _load_bots_json would queue from a file
QueuedFrom(rows) == {b \in DOMAIN rows : row_to_bot(rows[b]).auto_start}

\* C3: when the loop task of a running bot ends with an unhandled exception
\* the status becomes error, the error message is the exception's message,
\* and auto_start keeps its value in memory and in the persisted rows, so
\* the bot is queued at the next process start.
C3_LoopFailureKeepsAutoStart ==
    [][(ret'.op = "_run_bot" /\ ret'.result = "error" /\ ret'.was = "running")
         => LET b == ret'.bot IN
            /\ b \in DOMAIN bots'
            /\ bots'[b].status = "error"
            /\ bots'[b].error_msg = ret'.cause
            /\ bots'[b].auto_start = bots[b].auto_start
            /\ bots'[b].auto_start
            /\ b \in QueuedFrom(json_store')
            /\ b \in QueuedFrom(db_store')]_vars

\* a running bot's task has just failed while connecting the stream
C3_Witness ==
    /\ ret.op = "_run_bot" /\ ret.result = "error" /\ ret.was = "running"
    /\ ret.cause = "connect_error"
    /\ bots[ret.bot].status = "error" /\ bots[ret.bot].auto_start

Loaded == boot.pc \in {"constructed", "db_done"}

\* a loaded record carries what its row says, but for the status
FromRow(bot, row) ==
    bot = [row_to_bot(row) EXCEPT !.status = "stopped"]

\* C8: once the records are loaded at process start, every record has status
\* stopped and the restart queue is exactly the set of loaded records with
\* auto_start true; the records are those of the database table when it was
\* read, and otherwise those of bots.json.
C8_LoadedStoppedAndQueued ==
    /\ [](Loaded =>
            /\ \A b \in DOMAIN bots : bots[b].status = "stopped"
            /\ pending_restart = {b \in DOMAIN bots : bots[b].auto_start = TRUE})
    /\ []((ret.op = "__init__" /\ ret.result = "json") =>
            /\ DOMAIN bots = DOMAIN json_store
            /\ \A b \in DOMAIN bots : FromRow(bots[b], json_store[b]))
    /\ []((ret.op = "init_db" /\ ret.cause = "ok") =>
            /\ DOMAIN bots = DOMAIN db_store
            /\ \A b \in DOMAIN bots : FromRow(bots[b], db_store[b]))
    /\ [][(ret'.op \in {"init_db", "startup"} /\ ret'.cause # "ok")
            => UNCHANGED <<bots, pending_restart>>]_vars

\* the database could not be reached and the records of bots.json stay: one
\* that was running with auto_start, one without auto_start
C8_Witness ==
    /\ ret.op = "init_db" /\ ret.cause = "session_failed"
    /\ boot.pc = "db_done"
    /\ db_store # json_store
    /\ \E b \in DOMAIN bots :
          /\ json_store[b].status = "running" /\ bots[b].status = "stopped"
          /\ b \in pending_restart
    /\ \E b \in DOMAIN bots : ~bots[b].auto_start /\ b \notin pending_restart

Starts == SelectSeq(boot.log, LAMBDA ev : ev.ev = "start")

Sleeps == SelectSeq(boot.log, LAMBDA ev : ev.ev = "sleep")

Only(seq, ok) == SelectSeq(seq, LAMBDA ev : ev.ok = ok)

BotsOf(seq) == [k \in DOMAIN seq |-> seq[k].bot]

\* C9: in auto_restart_bots every queued bot is attempted exactly once, in
\* queue order, whatever the earlier attempts returned, and each attempted
\* bot is in exactly one of restarted and failed.
C9_EachQueuedAttemptedOnce ==
    /\ \A k \in DOMAIN Starts : Starts[k].bot = boot.queue[k]
    /\ \A x, y \in DOMAIN boot.queue : boot.queue[x] = boot.queue[y] => x = y
    /\ boot.pc \in {"head", "try"} => Len(Starts) = boot.i
    /\ boot.pc = "returned" => Len(Starts) = Len(boot.queue)
    /\ boot.restarted = BotsOf(Only(Starts, TRUE))
    /\ boot.failed = BotsOf(Only(Starts, FALSE))
    /\ \A k \in DOMAIN Starts :
         Starts[k].ok <=> bots[Starts[k].bot].status = "running"

\* the second of four queued bots failed and the third and fourth were
\* attempted all the same
C9_Witness ==
    /\ boot.pc = "returned" /\ Len(boot.queue) = 4 /\ Len(Starts) = 4
    /\ ~Starts[2].ok /\ Starts[3].ok
    /\ Len(boot.restarted) + Len(boot.failed) = 4

\* C10: in auto_restart_bots the starts follow one another in queue order,
\* nothing is waited before the first, and the delay waited right before the
\* start at index i >= 1 is 3 + 2*i seconds: 5, 7 and 9 for four bots.
C10_StaggeredSequentialStarts ==
    /\ \A k \in DOMAIN Starts : Starts[k].i = k - 1
    /\ \A p \in DOMAIN boot.log :
         LET ev == boot.log[p] IN
         /\ (ev.ev = "start" /\ ev.i = 0) => p = 1
         /\ (ev.ev = "start" /\ ev.i >= 1) =>
               /\ p > 1
               /\ boot.log[p - 1] =
                    [ev |-> "sleep", i |-> ev.i, delay |-> 3 + 2 * ev.i]
         /\ (ev.ev = "sleep" /\ p < Len(boot.log)) =>
               boot.log[p + 1].ev = "start"
    /\ (boot.pc = "returned" /\ Len(boot.queue) = 4) =>
          [k \in DOMAIN Sleeps |-> Sleeps[k].delay] = <<5, 7, 9>>

\* four bots were queued and all four starts were made
C10_Witness ==
    /\ boot.pc = "returned" /\ Len(boot.queue) = 4 /\ Len(Starts) = 4
    /\ Len(Sleeps) = 3 /\ Sleeps[3].delay = 9
    /\ boot.log[1].ev = "start"

----------------------------------------------------------------------------
(* Evaluation steps of LiveTradingEngine (EvalSpec) *)

\* the side an entry reason asks for
ReasonSide(reason) == IF reason = "enter_long" THEN "long" ELSE "short"

\* the step taken ends an evaluation of engine e that went for an entry
EntryEnds(e) ==
    /\ e \in DOMAIN engines /\ e \in DOMAIN engines'
    /\ engines[e].position.side = "none"
    /\ ret'.op = "_evaluate_signals" /\ ret'.bot = engines[e].bot
    /\ ret'.cause \in {"enter_long", "enter_short"}

\* C11: an evaluation step with no open position, not halted and with enough
\* candles, whose signals carry an entry flag, ends with a position of the
\* flagged side whose size is calculate_position_size(balance, price) - with
\* the paper executor (whose balance is its own quote balance) as with the
\* live one (unless the exchange refused the balance request or the order,
\* or the size came out as zero).
C11_EntryOpensSizedPosition ==
    [][\A e \in RunIds :
         /\ (EntryEnds(e) /\ engines[e].executor = "paper"
                /\ FLt(F(0), engines[e].paper.quote)) =>
               /\ engines'[e].position.side = ReasonSide(ret'.cause)
               /\ \E p \in Prices :
                     engines'[e].position.size =
                        calculate_position_size(engines[e].paper.quote, F(p))
         /\ (EntryEnds(e) /\ engines[e].executor = "live"
                /\ ret'.result \notin {"raised", "zero_size"}) =>
               /\ engines'[e].position.side = ReasonSide(ret'.cause)
               /\ engines'[e].position.size = engines[e].local.size
               /\ \E b \in Balances :
                     engines[e].local.size =
                        calculate_position_size(F(b), engines[e].local.price)]_vars

\* engine e holds a position before the step and is still there after it
Holding(e) ==
    /\ e \in DOMAIN engines /\ e \in DOMAIN engines'
    /\ engines[e].position.side # "none"

\* the strategy's exit flag for the side of the position
ExitFlag(pos, sig) ==
    \/ pos.side = "long" /\ sig.exit_long
    \/ pos.side = "short" /\ sig.exit_short

\* the step issues the exit order of engine e: the live executor is awaited,
\* the paper executor has answered or raised within the step
ExitIssued(e) ==
    IF engines[e].executor = "live"
    THEN engines'[e].cpc = "order" /\ engines'[e].local.kind = "close"
    ELSE ret'.op = "_evaluate_signals" /\ ret'.result \in {"closed", "raised"}

\* the condition the exit order of engine e was issued for
IssuedFor(e) ==
    IF engines[e].executor = "live" THEN engines'[e].local.reason ELSE ret'.cause

\* the position of engine e is the same one after the step
SamePosition(e) ==
    /\ engines'[e].position.side = engines[e].position.side
    /\ engines'[e].position.entry_price = engines[e].position.entry_price
    /\ engines'[e].position.size = engines[e].position.size
    /\ engines'[e].history = engines[e].history

\* C12: in an evaluation that starts with a position the exit order is issued
\* exactly when the exit flag of the position's side, the stop-loss or the
\* take-profit holds, and it is issued for the first of them in that order;
\* when none holds the position stays and nothing is ordered; no step
\* replaces or re-opens a held position; and a position goes away only by the
\* one exit order of the evaluation being filled, which appends one Trade
\* and ends the evaluation.
C12_ExitPrecedence ==
    [][\A e \in RunIds : Holding(e) =>
         LET pos == engines[e].position
             rm == engines[e].risk
         IN /\ \A fresh \in {0, 1}, sig \in Signals, p \in Prices :
                 CandleDecide(e, fresh, sig, p) =>
                    LET flag == ExitFlag(pos, sig)
                        sl == check_stop_loss(rm, pos.entry_price, F(p), pos.side)
                        tp == check_take_profit(rm, pos.entry_price, F(p), pos.side)
                    IN /\ ExitIssued(e) <=> (flag \/ sl \/ tp)
                       /\ ExitIssued(e) =>
                            IssuedFor(e) = IF flag THEN "exit_flag"
                                           ELSE IF sl THEN "stop_loss"
                                           ELSE "take_profit"
                       /\ ~ExitIssued(e) =>
                            /\ SamePosition(e)
                            /\ ret' = Evaluated(e, "no_order", "none")
                       /\ engines'[e].local.kind # "open"
                       /\ engines'[e].cpc # "balance"
            /\ engines'[e].position.side \in {pos.side, "none"}
            /\ engines'[e].position.side = pos.side => SamePosition(e)
            /\ engines'[e].position.side = "none" =>
                 /\ ret'.op = "_evaluate_signals" /\ ret'.result = "closed"
                 /\ ret'.cause \in {"exit_flag", "stop_loss", "take_profit"}
                 /\ Len(engines'[e].history) = Len(engines[e].history) + 1
                 /\ engines'[e].history[Len(engines'[e].history)].side = pos.side
                 /\ engines'[e].cpc \in {"sleep", "done"}
                 /\ engines[e].executor = "live" =>
                       /\ engines[e].cpc = "order"
                       /\ engines[e].local.kind = "close"
                       /\ engines[e].local.reason = ret'.cause]_vars

\* a long position entered at 100 with a 5% stop-loss was closed at 70 by the
\* stop-loss, and its Trade is the only one recorded
C12_Witness ==
    /\ ret.op = "_evaluate_signals" /\ ret.result = "closed"
    /\ ret.cause = "stop_loss"
    /\ \E e \in DOMAIN engines :
         /\ engines[e].bot = ret.bot
         /\ engines[e].position.side = "none"
         /\ Len(engines[e].history) = 1
         /\ engines[e].history[1].side = "long"
         /\ engines[e].history[1].entry_price = F(100)
         /\ engines[e].history[1].exit_price = F(70)

\* C13: while risk_manager.should_halt() is true no step of an evaluation
\* opens a position, and a position that goes away while halted does so by
\* an exit order issued for its own exit condition, never for the halt.
C13_HaltedOpensNothing ==
    [][\A e \in RunIds :
         (e \in DOMAIN engines /\ e \in DOMAIN engines'
            /\ engines[e].risk.halted) =>
            /\ engines[e].position.side = "none" =>
                  engines'[e].position.side = "none"
            /\ (engines[e].position.side # "none"
                  /\ engines'[e].position.side = "none") =>
                  /\ ret'.op = "_evaluate_signals"
                  /\ ret'.cause \in {"exit_flag", "stop_loss", "take_profit"}]_vars

\* one of the three exit conditions holds for pos under the row sig at price p
ExitHolds(rm, pos, sig, p) ==
    \/ ExitFlag(pos, sig)
    \/ check_stop_loss(rm, pos.entry_price, F(p), pos.side)
    \/ check_take_profit(rm, pos.entry_price, F(p), pos.side)

\* C14: a halted engine that holds a position closes it in an evaluation in
\* which its exit condition holds.  An evaluation that returns for the halt
\* has read neither the signals nor the price of its period, so the period
\* may be any: such a return over a held position is allowed only if no row
\* and no price make an exit condition of the position hold.
C14_HaltedStillExits ==
    [][\A e \in RunIds :
         (Holding(e) /\ engines[e].risk.halted /\ engines[e].cpc = "sleep"
            /\ ret' = Evaluated(e, "skipped", "halted")) =>
            ~\E sig \in Signals, p \in Prices :
                ExitHolds(engines[e].risk, engines[e].position, sig, p)]_vars

\* C15: when the executor raises in an evaluation (the order is refused, the
\* balance cannot be read, the paper executor has no price or not enough
\* balance) the evaluation ends there: the position and the trade history
\* are what they were, the paper balances too, no bot record changes (the
\* bot stays running), the engine task is untouched and the candle loop is
\* back at its head, sleeping towards the next period.
C15_OrderFailureContained ==
    [][\A e \in RunIds :
         (e \in DOMAIN engines /\ ret'.op = "_evaluate_signals"
            /\ ret'.bot = engines[e].bot /\ ret'.result = "raised") =>
            /\ e \in DOMAIN engines'
            /\ engines'[e].position = engines[e].position
            /\ engines'[e].history = engines[e].history
            /\ engines'[e].paper = engines[e].paper
            /\ engines'[e].risk = engines[e].risk
            /\ bots' = bots
            /\ bots[engines[e].bot].status = "running"
            /\ tasks' = tasks
            /\ engines'[e].cpc = "sleep"]_vars

\* the exchange refused the exit order of a live bot: the position is still
\* held, nothing was recorded, the bot is running and the loop sleeps
C15_Witness ==
    /\ ret.op = "_evaluate_signals" /\ ret.result = "raised"
    /\ ret.cause = "exit_flag"
    /\ \E e \in DOMAIN engines :
         /\ engines[e].bot = ret.bot /\ engines[e].executor = "live"
         /\ engines[e].position.side = "long"
         /\ engines[e].history = <<>>
         /\ engines[e].cpc = "sleep"
         /\ bots[ret.bot].status = "running"

\* C16: the step in which an evaluation closes a position runs the
\* orchestrator's trade callback for the Trade just recorded: the bot's
\* total_trades is one more, its total_pnl is more by the Trade's pnl_usd,
\* and the stored rows carry the new figures.
C16_TradeCallbackOnClose ==
    [][\A e \in RunIds :
         (Holding(e) /\ engines'[e].position.side = "none") =>
            LET b == engines[e].bot
                trade == engines'[e].history[Len(engines'[e].history)]
            IN /\ b \in DOMAIN bots /\ b \in DOMAIN bots'
               /\ bots'[b].total_trades = bots[b].total_trades + 1
               /\ bots'[b].total_pnl = FAdd(bots[b].total_pnl, trade.pnl_usd)
               /\ json_store'[b].total_trades = bots'[b].total_trades
               /\ json_store'[b].total_pnl = bots'[b].total_pnl
               /\ db_client => db_store'[b].total_trades = bots'[b].total_trades]_vars

----------------------------------------------------------------------------
(* Webhook alerts (WebhookSpec) *)

CloseActions == {"close", "close_long", "close_short"}

\* the alert a closes the position pos: an entry against it, or a close
ClosesPosition(a, pos) ==
    \/ a = "buy" /\ pos.side = "short"
    \/ a = "sell" /\ pos.side = "long"
    \/ a \in CloseActions /\ pos.side # "none"

\* (exit - entry) * size for a long, (entry - exit) * size for a short
DocumentedPnl(pos, exit_price) ==
    IF pos.side = "long"
    THEN FMul(FSub(exit_price, pos.entry_price), pos.size)
    ELSE FMul(FSub(pos.entry_price, exit_price), pos.size)

\* C17: the side of every webhook position is long, short or none.  An
\* executed alert that closes the position (buy while short, sell while
\* long, close* while open) appends exactly one Trade and adds one to
\* total_trades, and with positive entry and alert prices the Trade's pnl is
\* the documented one, rounded to 4 places, and total_pnl grows by it; any
\* other executed alert appends nothing; a close* with nothing open is
\* executed, reported as no_position, and changes neither position nor stats
\* nor error_msg.
C17_WebhookTradeAccounting ==
    [][/\ \A b \in DOMAIN webhook_positions' :
            webhook_positions'[b].side \in {"long", "short", "none"}
       /\ \A token \in Tokens, action \in RawActions, price \in AlertPrices :
            (ExecuteWebhookSignal(token, action, price)
               /\ ret'.result # "rejected") =>
               LET b == ret'.bot
                   a == Normalize(action)
                   pos == webhook_positions[b]
                   old == bots[b]
                   new == bots'[b]
               IN /\ ret'.result = "executed"
                  /\ ClosesPosition(a, pos) =>
                       /\ new.total_trades = old.total_trades + 1
                       /\ Len(new.trade_history) = Len(old.trade_history) + 1
                       /\ SubSeq(new.trade_history, 1, Len(old.trade_history))
                            = old.trade_history
                       /\ (price # None /\ FLt(F(0), pos.entry_price)) =>
                            LET pnl == DocumentedPnl(pos, F(price[1]))
                                trade == new.trade_history[Len(new.trade_history)]
                            IN /\ trade.pnl = Round(pnl, 4)
                               /\ trade.price = F(price[1])
                               /\ new.total_pnl = FAdd(old.total_pnl, pnl)
                  /\ ~ClosesPosition(a, pos) =>
                       /\ new.total_trades = old.total_trades
                       /\ new.trade_history = old.trade_history
                       /\ new.total_pnl = old.total_pnl
                  /\ (a \in CloseActions /\ pos.side = "none") =>
                       /\ ret'.cause = "no_position"
                       /\ webhook_positions'[b] = pos
                       /\ new.error_msg = old.error_msg
                       /\ new.status = "running"]_vars

\* a short entered at 110 was closed by a buy at 100 (pnl 1000/11, recorded
\* as 90.9091) and the long that followed was closed by a close alert
C17_Witness ==
    /\ ret.op = "execute_webhook_signal" /\ ret.cause = "closed_position"
    /\ ret.bot \in DOMAIN bots
    /\ bots[ret.bot].total_trades = 2
    /\ Len(bots[ret.bot].trade_history) = 2
    /\ bots[ret.bot].trade_history[1].action = "close_short"
    /\ bots[ret.bot].trade_history[1].pnl = Frac(909091, 10000)
    /\ bots[ret.bot].trade_history[2].action = "close"
    /\ webhook_positions[ret.bot].side = "none"

\* C18: an executed buy at a price p > 0 leaves the position (long, p,
\* capital / p) and an executed sell (short, p, capital / p); a position of
\* the other side open before is closed first: its Trade carries the pnl of
\* the old entry and size at p, and it is the only Trade appended.  So a long
\* entered at 100 with capital 1000 (size 10) and a sell at 110 give one
\* Trade with pnl 100 and then a short with entry 110 and size 1000/110.
C18_EntryReplacesPosition ==
    [][\A token \in Tokens, action \in RawActions, price \in AlertPrices :
         (ExecuteWebhookSignal(token, action, price)
            /\ ret'.result # "rejected" /\ price # None
            /\ Normalize(action) \in {"buy", "sell"}) =>
            LET b == ret'.bot
                a == Normalize(action)
                p == F(price[1])
                pos == webhook_positions[b]
                old == bots[b]
                new == bots'[b]
                against == IF a = "buy" THEN "short" ELSE "long"
                last == new.trade_history[Len(new.trade_history)]
            IN /\ webhook_positions'[b] =
                    [side |-> IF a = "buy" THEN "long" ELSE "short",
                     entry_price |-> p,
                     size |-> FDiv(F(old.capital), p)]
               /\ pos.side = against =>
                    /\ new.trade_history = Append(old.trade_history, last)
                    /\ last.action = "close_" \o against
                    /\ last.price = p
                    /\ FLt(F(0), pos.entry_price) =>
                          last.pnl = Round(DocumentedPnl(pos, p), 4)
               /\ pos.side # against => new.trade_history = old.trade_history
               /\ (pos = [side |-> "long", entry_price |-> F(100), size |-> F(10)]
                     /\ old.capital = 1000 /\ a = "sell" /\ p = F(110)) =>
                    /\ last.pnl = F(100)
                    /\ new.total_pnl = FAdd(old.total_pnl, F(100))
                    /\ webhook_positions'[b].size = Frac(1000, 110)]_vars

\* the example: after buy at 100 and sell at 110 with capital 1000 the bot
\* has one Trade, of +100, and is short from 110 with size 100/11
C18_Witness ==
    /\ ret.op = "execute_webhook_signal"
    /\ ret.cause = "closed_long,opened_short"
    /\ ret.bot \in DOMAIN bots
    /\ bots[ret.bot].capital = 1000
    /\ bots[ret.bot].total_trades = 1
    /\ bots[ret.bot].total_pnl = F(100)
    /\ Len(bots[ret.bot].trade_history) = 1
    /\ bots[ret.bot].trade_history[1].pnl = F(100)
    /\ webhook_positions[ret.bot] =
         [side |-> "short", entry_price |-> F(110), size |-> <<100, 11>>]

\* the webhook-sourced bots whose webhook token is the token
TokenOwners(token) ==
    {b \in DOMAIN bots : /\ bots[b].signal_source = "webhook"
                         /\ bots[b].webhook_token = token}

\* the errors that stand for invalid_token, not_running and not_ready
InvalidToken == "Invalid webhook token"

NotRunning(status) == "Bot is " \o status \o ", not running"

NotReady == "Executor not ready"

C20_RejectedChangesNothing ==
    [][(ret'.op = "execute_webhook_signal" /\ ret'.result = "rejected") =>
          /\ webhook_positions' = webhook_positions
          /\ bots' = bots
          /\ webhook_executors' = webhook_executors
          /\ json_store' = json_store
          /\ db_store' = db_store]_vars

\* "hold" was rejected for a running bot that is long from 110 and has one
\* Trade on record
C20_Witness ==
    /\ ret.op = "execute_webhook_signal" /\ ret.result = "rejected"
    /\ ret.cause = "Unknown action: hold"
    /\ ret.bot \in DOMAIN bots
    /\ bots[ret.bot].status = "running"
    /\ bots[ret.bot].total_trades = 1
    /\ bots[ret.bot].last_signal = "BUY @ $110.00"
    /\ webhook_positions[ret.bot].side = "long"
    /\ webhook_positions[ret.bot].entry_price = F(110)


----------------------------------------------------------------------------
(* PositionManager (PositionSpec) *)

\* C21: open_position leaves a position for the symbol and the history as it
\* was; close_position on a symbol that has a position removes it, returns
\* the trade and appends exactly that one trade; on a symbol that has none it
\* returns None and changes nothing.  So an open followed by a close of the
\* same symbol leaves no position and one more trade, and the history grows
\* by one per successful close and never shrinks.
C21_OpenCloseRoundTrip ==
    [][/\ \A s \in Symbols, side \in PositionSides, p \in PositionPrices :
             OpenPosition(s, side, p, 1) =>
                /\ s \in DOMAIN lib'.positions
                /\ lib'.trade_history = lib.trade_history
       /\ \A s \in Symbols, p \in PositionPrices :
             ClosePosition(s, p) =>
                IF s \in DOMAIN lib.positions
                THEN /\ ret'.result = "trade"
                     /\ s \notin DOMAIN lib'.positions
                     /\ Len(lib'.trade_history) = Len(lib.trade_history) + 1
                     /\ SubSeq(lib'.trade_history, 1, Len(lib.trade_history))
                           = lib.trade_history
                     /\ LET trade == lib'.trade_history[Len(lib'.trade_history)]
                        IN /\ trade.symbol = s
                           /\ trade.side = lib.positions[s].side
                           /\ trade.entry_price = lib.positions[s].entry_price
                           /\ trade.exit_price = F(p)
                ELSE /\ ret'.result = "None"
                     /\ lib' = lib]_vars

\* a position was opened, then closed, and a second one after it
C21_Witness ==
    /\ ret.op = "close_position"
    /\ ret.result = "trade"
    /\ ret.cause \notin DOMAIN lib.positions
    /\ Len(lib.trade_history) = MaxCloses

\* C22: open_position on a symbol that already has a position fails and
\* leaves that position's side, entry price and size as they were.
C22_OpenFailsWhenOccupied ==
    [][\A s \in Symbols, side \in PositionSides, p \in PositionPrices :
          (OpenPosition(s, side, p, 1) /\ s \in DOMAIN lib.positions) =>
             /\ ret'.result = "error"
             /\ lib'.positions[s] = lib.positions[s]]_vars

----------------------------------------------------------------------------
(* RiskManager (RiskSpec) *)

\* C23: a halted manager stays halted across every step that is not reset(),
\* whatever capital a later update() brings; should_halt() returns the flag;
\* reset() makes the manager active and puts peak capital back to the initial
\* capital.
C23_HaltOneWay ==
    [][/\ (lib.rm.halted /\ ~Reset) => lib'.rm.halted
       /\ ShouldHalt => ret'.result = BoolText(lib.rm.halted)
       /\ Reset => /\ ~lib'.rm.halted
                   /\ lib'.rm.peak_capital = F(InitialCapital)]_vars

\* halted, then updated with a capital that is a new peak, and still halted
C23_Witness ==
    /\ ret.op = "update"
    /\ lib.rm.halted
    /\ Len(lib.updates) >= 2
    /\ lib.updates[Len(lib.updates)] = 12000
    /\ lib.rm.peak_capital = F(12000)

MaxOf(S) == CHOOSE m \in S : \A x \in S : x <= m

\* the peak the i-th update since construction or reset is measured against
PeakAt(i) == MaxOf({InitialCapital} \cup {lib.updates[j] : j \in 1..i})

\* (1 - c / peak) * 100 >= limit, the left side being the double the code computes
DrawdownAtLeast(c, peak, limit) ==
    LET exact == FSub(F(100), Frac(100 * c, peak))
    IN \/ FLt(F(limit), exact)
       \/ F(limit) = exact /\ DrawdownErr(F(c), F(peak)) >= 0

----------------------------------------------------------------------------
(* PaperExecutor (PaperSpec) *)

\* the balance test the order must pass: BUY needs size * price + fee of the
\* quote asset, SELL needs size of the base asset
Insufficient(x, side, size) ==
    LET cost == FMul(F(size), x.price)
        fee == FMul(cost, Frac(5, 10000))
    IN IF side = "BUY" THEN FLt(x.quote, FAdd(cost, fee)) ELSE FLt(x.base, F(size))

\* C26: a market order with insufficient balance raises and leaves both
\* balances, the position and the order history as they were; an order that
\* does not raise is filled whole (the base balance moves by its size and the
\* history gains one FILLED order of that size); no balance is ever negative.
C26_InsufficientBalanceFails ==
    [][\A side \in OrderSides, size \in OrderSizes :
          PlaceMarketOrder(side, size) =>
             /\ (FLt(F(0), lib.px.price) /\ Insufficient(lib.px, side, size)) =>
                   /\ ret'.result = "raised"
                   /\ lib'.px.quote = lib.px.quote
                   /\ lib'.px.base = lib.px.base
                   /\ lib'.px.position = lib.px.position
                   /\ lib'.px.orders = lib.px.orders
             /\ ret'.result = "order" =>
                   /\ lib'.px.base = FAdd(lib.px.base,
                                          F(IF side = "BUY" THEN size ELSE -size))
                   /\ Len(lib'.px.orders) = Len(lib.px.orders) + 1
                   /\ lib'.px.orders[Len(lib'.px.orders)].size = F(size)
                   /\ lib'.px.orders[Len(lib'.px.orders)].status = "FILLED"
             /\ FLe(F(0), lib'.px.quote)
             /\ FLe(F(0), lib'.px.base)]_vars

\* after a fill, an order the balances cannot cover has raised
C26_Witness ==
    /\ ret.op = "place_market_order"
    /\ ret.result = "raised"
    /\ FLt(F(0), lib.px.price)
    /\ Len(lib.px.orders) >= 1
    /\ lib.px.order_counter > Len(lib.px.orders)

----------------------------------------------------------------------------
(* PionexExecutor (LiveSpec) *)

\* C27: an order the live executor is asked to place for a symbol containing
\* _PERP is rejected by the executor, and nothing is posted to the exchange.
C27_PerpOrderRejected ==
    [][\A symbol \in LiveSymbols, side \in OrderSides, size \in LiveSizes,
          price \in LivePrices, accepted \in BOOLEAN :
          (/\ IsPerp(symbol)
           /\ \/ PlaceLiveMarketOrder(symbol, side, size, accepted)
              \/ PlaceLiveLimitOrder(symbol, side, size, price, accepted)) =>
             /\ ret'.result = "rejected"
             /\ lib'.requests = lib.requests]_vars

----------------------------------------------------------------------------
(* Trade histories (HistorySpec) *)

\* entries a trade history keeps
HistoryCap == 50

\* C28: a bot's in-memory trade history never holds more than 50 entries,
\* and each completed trade leaves the 50 most recent in order of completion:
\* the history after it is the history before it with the new trade appended,
\* cut to its last 50.
C28_HistoryKeepsLast50 ==
    [][\A b \in DOMAIN bots' :
          LET h == bots'[b].trade_history IN
          /\ Len(h) <= HistoryCap
          /\ (b \in DOMAIN bots /\ h # bots[b].trade_history) =>
                h = Last50(Append(bots[b].trade_history, h[Len(h)]))]_vars

----------------------------------------------------------------------------
(* Persist and load (PersistSpec) *)

\* the BotRecord fields of the spec other than the lifecycle status
RecordFields == BotFields \ {"status", "created_at"}

\* the new process has loaded its registry
LoadedBack == lib.kind = "exited" /\ Loaded

\* C29: a record the process held and persisted comes back from the load
\* equal in every BotRecord field other than status, which is "stopped": the
\* last error message, the stats, the webhook token and auto_start survive.
C29_RoundTrip ==
    LoadedBack =>
       \A b \in DOMAIN lib.bots \cap DOMAIN bots :
          /\ bots[b].status = "stopped"
          /\ \A f \in RecordFields : bots[b][f] = lib.bots[b][f]

----------------------------------------------------------------------------
(* Starts and stops against ending tasks (RaceSpec) *)

\* the task registered for bot b has not ended
LiveHandle(b) ==
    /\ b \in DOMAIN running_tasks
    /\ running_tasks[b] \in DOMAIN tasks
    /\ tasks[running_tasks[b]].pc # "done"

\* the tasks of bot b that run and have not been cancelled
LiveLoops(b) ==
    {t \in DOMAIN tasks :
        tasks[t].bot = b /\ tasks[t].pc # "done" /\ ~tasks[t].cancel}

\* a step of task t alone, which is not the task registered for bot b
StaleTaskStep(t, b) ==
    /\ tasks[t].bot = b
    /\ b \notin DOMAIN running_tasks \/ running_tasks[b] # t
    /\ t \in DOMAIN tasks' => tasks'[t] # tasks[t]
    /\ running_tasks' = running_tasks
    /\ stopping' = stopping

\* C30: however StartBot and StopBot on one bot interleave with the ending
\* of cancelled or failed tasks, the record's status is "running" exactly when
\* a live task is registered for the bot, at most one loop of the bot is live,
\* and a step of a task that is no longer the registered one leaves the
\* record's status as it was.
C30_StatusFollowsHandle ==
    /\ [](\A b \in DOMAIN bots :
            /\ bots[b].status = "running" <=> LiveHandle(b)
            /\ Cardinality(LiveLoops(b)) <= 1)
    /\ [][\A t \in DOMAIN tasks, b \in DOMAIN bots :
            StaleTaskStep(t, b) =>
               b \in DOMAIN bots' /\ bots'[b].status = bots[b].status]_vars

----------------------------------------------------------------------------
(* Trade-data events against orders in flight (FlightSpec) *)

\* what the account is worth at the price of the trade being handled
Worth(price) == FAdd(lib.quote, FMul(lib.base, price))

\* C31: whenever the trade-data handler feeds the RiskManager, also while an
\* open or a close of the evaluation loop is between its order and the
\* PositionManager update, the capital it feeds is the quote balance plus the
\* value of the position the account holds: the RiskManager's peak and halt
\* flag after the handler are those an update with that value gives.
C31_HandlerFeedsActualCapital ==
    [][\A b \in {lib.quote[1]} :
          (1 \in DOMAIN tasks /\ OnTradeBalance(1, TRUE, b)) =>
             LET eng == engines[1] IN
             /\ TotalValue(F(b), eng.position, eng.trade_price)
                   = Worth(eng.trade_price)
             /\ engines'[1].risk = RiskUpdate(eng.risk, Worth(eng.trade_price))]_vars

----------------------------------------------------------------------------
(* Independence of bots (FrameSpec) *)

\* everything the program holds for bot b: its record, its registered
\* handles, its webhook executor and position, and the state (position, risk
\* state, stream, program counters) of its live engines and tasks
BotView(b) ==
    [record   |-> IF b \in DOMAIN bots THEN <<bots[b]>> ELSE <<>>,
     task     |-> IF b \in DOMAIN running_tasks THEN <<running_tasks[b]>> ELSE <<>>,
     engine   |-> IF b \in DOMAIN running_engines
                  THEN <<running_engines[b]>> ELSE <<>>,
     executor |-> IF b \in DOMAIN webhook_executors
                  THEN <<webhook_executors[b]>> ELSE <<>>,
     position |-> IF b \in DOMAIN webhook_positions
                  THEN <<webhook_positions[b]>> ELSE <<>>,
     engines  |-> [e \in {x \in DOMAIN engines :
                            /\ engines[x].bot = b
                            /\ Held(x, engines, running_engines, tasks, stopping)}
                     |-> engines[e]],
     tasks    |-> [t \in {x \in DOMAIN tasks :
                            tasks[x].bot = b /\ tasks[x].pc # "done"}
                     |-> tasks[t]]]

\* a step of an orchestrator operation called for bot a
OpOn(a) ==
    \/ id_count + 1 = a /\ \E x \in {CreateArgs("", "strategy", FALSE),
                                     CreateArgs("", "webhook", TRUE)} : CreateBot(x)
    \/ \E upd \in UpdateInputs : UpdateBot(a, "", upd)
    \/ DeleteBot(a, "")
    \/ StartDispatch(a, "", "k1")
    \/ StopBot(a, "")
    \/ \E c \in stopping : c.bot = a /\ StopBotResume(c)
    \/ \E action \in {"buy", "close"} :
          ExecuteWebhookSignal("tok" \o ToString(a), action, <<100>>)

\* a step of a loop of bot a, its failures and its cancellation included
LoopOf(a) ==
    \/ \E t \in DOMAIN tasks :
          /\ tasks[t].bot = a
          /\ \/ TaskStart(t)
             \/ \E ok \in BOOLEAN : TaskLoaded(t, ok, Lookback)
             \/ \E ok \in BOOLEAN : TaskConnected(t, ok)
             \/ OnTrade(t, 100)
             \/ OnTradeBalance(t, TRUE, 1000)
             \/ TaskListenReturn(t)
             \/ TaskCancelled(t)
    \/ \E e \in DOMAIN engines :
          /\ engines[e].bot = a
          /\ \/ CandleStart(e)
             \/ CandleWake(e, TRUE)
             \/ CandleDecide(e, 0, [Quiet EXCEPT !.entry_long = TRUE], 100)
             \/ CandleBalance(e, TRUE, 1000)
             \/ CandleOrderDone(e, TRUE, None)

\* C32: an orchestrator operation on bot A (create, update, delete, start,
\* stop, webhook execute) and any step of A's loop, its failure included,
\* leaves every other bot B's record, running handles, position state and
\* risk state as they were, and B's loop where it was, so that B's next step
\* is the one it would have taken.
C32_OtherBotsUntouched ==
    [][\A a \in BotIds : \A b \in BotIds \ {a} :
          (OpOn(a) \/ LoopOf(a)) => BotView(b)' = BotView(b)]_vars

\* bot 2's loop has just failed while bot 1 runs and holds a position
C32_Witness ==
    /\ ret.op = "_run_bot" /\ ret.bot = 2 /\ ret.result = "error"
    /\ 2 \in DOMAIN bots /\ bots[2].status = "error"
    /\ 1 \in DOMAIN bots /\ bots[1].status = "running"
    /\ 1 \in DOMAIN running_engines
    /\ engines[running_engines[1]].position.side = "long"

----------------------------------------------------------------------------
(* A failing evaluation sub-task (CrashSpec) *)

\* bot b is shown as running and its stream-dispatch task is listening on
\* an engine that has not been stopped
Dispatching(b) ==
    /\ b \in DOMAIN bots /\ bots[b].status = "running"
    /\ b \in DOMAIN running_tasks /\ b \in DOMAIN running_engines
    /\ running_tasks[b] \in DOMAIN tasks
    /\ tasks[running_tasks[b]].pc \in {"listening", "on_trade"}
    /\ ~tasks[running_tasks[b]].cancel
    /\ engines[running_engines[b]].running

\* C33: an exception raised inside the candle-evaluation sub-task outside
\* order placement is captured: the bot does not remain `running`, with its
\* stream-dispatch task listening, once its evaluation sub-task has ended.
C33_EvaluationFailureCaptured ==
    \A b \in DOMAIN bots :
       Dispatching(b) => engines[running_engines[b]].cpc # "done"

----------------------------------------------------------------------------
(* The market-data stream (StreamSpec) *)

\* C34: after an unexpected disconnection listen() waits the delay, then
\* reconnects, and re-sends every subscription issued so far before it
\* dispatches any further event: a connection attempt of listen() follows its
\* sleep, an event is dispatched after a reconnection only when every
\* subscription issued so far has been sent on the new connection, and, while close() has not been
\* called, listen() neither returns after a disconnection or a failed
\* reconnect attempt nor stops retrying: it goes back to recv().
C34_ReconnectReplaysSubscriptions ==
    [][/\ (lib'.lpc = "connect" /\ lib.lpc # "connect") => lib.lpc = "sleep"
       /\ (lib'.sock = "open" /\ lib.sock # "open" /\ lib.lpc # "idle") =>
             lib.lpc = "connect"
       /\ (lib.restored /\ \E topic \in Topics : Message(topic)) =>
             \A k \in DOMAIN lib.subscriptions : lib.subscriptions[k] \in lib.sent
       /\ (lib'.lpc = "done" /\ lib.lpc \notin {"idle", "done"}) => lib.closed
       /\ (Reconnected(FALSE) /\ ~lib.closed) => lib'.lpc = "recv"]_vars

\* an event is dispatched on a connection _reconnect made, with two
\* subscriptions issued and close() not called
C34_Witness ==
    /\ lib.kind = "PionexWebSocket"
    /\ ret.op = "_dispatch"
    /\ lib.restored /\ ~lib.closed
    /\ Len(lib.subscriptions) = 2
    /\ lib.subscriptions[1] # lib.subscriptions[2]


\* C38: once close() has been called on a connected stream whose listen() is
\* in progress, the stream never reconnects: no new connection is opened, no
\* event is dispatched except on the connection that is being closed.
C38_CloseEndsListen ==
    /\ [][lib.closed_live => ~(lib'.sock = "open" /\ lib.sock # "open")]_vars
    /\ [][(lib.closed_live /\ \E topic \in Topics : Message(topic)) =>
              lib.cpc = "closing"]_vars


----------------------------------------------------------------------------
(* The candle refresh fails (LoopSpec) *)

\* C35: when the candle refresh fails during an evaluation step, that cycle
\* is skipped: the strategy is not evaluated on the stale buffer (the step
\* reports "skipped"), no order is placed in that step (no position is opened
\* or closed and no order call is entered), the loop goes back to its sleep
\* and the bot's status stays "running".
C35_RefreshFailureSkipsCycle ==
    [][\A e \in RunIds : \A sig \in LoopSignals :
          CandleRefreshFailed(e, sig, 100) =>
             /\ ret'.result = "skipped"
             /\ e \in DOMAIN engines' =>
                   /\ engines'[e].cpc \in {"sleep", "done"}
                   /\ engines'[e].position = engines[e].position
                   /\ engines'[e].history = engines[e].history
             /\ bots' = bots]_vars


----------------------------------------------------------------------------
(* The candle loop and the periods (PeriodSpec) *)

\* C36: the candle loop evaluates the strategy at most once for any candle
\* period and exactly once for each period it detects as newly started: the
\* periods for which an evaluation ran are strictly increasing, so no period
\* is evaluated twice, and a polling tick that finds the period later than
\* the last one evaluated records it and enters exactly one evaluation for it,
\* while any other tick enters none.
C36_OncePerPeriod ==
    /\ [](\A i \in DOMAIN lib.evaluated : \A j \in DOMAIN lib.evaluated :
             i < j => lib.evaluated[i] < lib.evaluated[j])
    /\ [][\A late \in Lateness : PollTick(late) =>
             LET period == CurrentPeriod(lib'.now, lib.timeframe)
             IN IF period > lib.last_signal_time
                THEN /\ lib'.evaluated = Append(lib.evaluated, period)
                     /\ lib'.pc = "evaluate"
                     /\ lib'.last_signal_time = period
                ELSE /\ lib'.evaluated = lib.evaluated
                     /\ lib'.pc # "evaluate"]_vars
    /\ [][lib'.evaluated # lib.evaluated => \E late \in Lateness : PollTick(late)]_vars

\* two periods were evaluated and a later tick, in the period evaluated
\* last, entered no evaluation
C36_Witness ==
    /\ lib.kind = "candle_loop"
    /\ Len(lib.evaluated) >= 2
    /\ ret.op = "_candle_loop" /\ ret.result = "same_period"
    /\ CurrentPeriod(lib.now, lib.timeframe) = lib.last_signal_time


----------------------------------------------------------------------------
(* start_bot fails (Spec) *)

\* C37: whenever start_bot returns False for a bot that exists and was not
\* already running, the bot's status is "error" with a message, no engine
\* and no task handle is registered for that id, and auto_start has the
\* value it had before the call.
C37_FailedStartLeavesNoHandle ==
    [][\A b \in BotIds : \A k \in ApiKeys :
          (/\ b \in DOMAIN bots /\ bots[b].status # "running"
           /\ StartBot(b, k)
           /\ ret'.result = "False") =>
             /\ bots'[b].status = "error"
             /\ bots'[b].error_msg # ""
             /\ b \notin DOMAIN running_engines'
             /\ b \notin DOMAIN running_tasks'
             /\ bots'[b].auto_start = bots[b].auto_start]_vars


----------------------------------------------------------------------------
(* The simulated backend holds no short (PaperSpec) *)

\* C39: in the PaperExecutor, starting from a ledger holding only the quote
\* asset, after any sequence of market orders on one symbol the tracked
\* position is never short and its size equals the base-asset balance; a
\* SELL placed while the base balance is zero raises and changes neither the
\* balances nor the position.
C39_PaperNeverShort ==
    /\ [](lib.kind = "PaperExecutor" =>
             /\ lib.px.position.side # "short"
             /\ lib.px.position.size = lib.px.base
             /\ (lib.px.position.side = "none") = (lib.px.base = F(0)))
    /\ [][\A size \in OrderSizes :
             (PlaceMarketOrder("SELL", size) /\ lib.px.base = F(0)) =>
                /\ ret'.result = "raised"
                /\ lib'.px.position = lib.px.position
                /\ lib'.px.base = lib.px.base
                /\ lib'.px.quote = lib.px.quote]_vars

\* a long was bought, added to and partly sold: the position left is long
\* and as large as the base balance
C39_Witness ==
    /\ lib.kind = "PaperExecutor"
    /\ Len(lib.px.orders) = 3
    /\ lib.px.orders[1].side = "BUY" /\ lib.px.orders[2].side = "BUY"
    /\ lib.px.orders[3].side = "SELL"
    /\ lib.px.position.side = "long"
    /\ lib.px.position.size = lib.px.base
    /\ FLt(F(0), lib.px.base)


----------------------------------------------------------------------------
(* A repeated entry alert (WebhookSpec) *)

\* C40: a webhook `buy` executed while a long is open, or a `sell` executed
\* while a short is open, leaves the position's entry price and size
\* unchanged and records no trade.
C40_RepeatedEntryKeepsPosition ==
    [][\A token \in Tokens, action \in RawActions, price \in AlertPrices :
         (/\ ExecuteWebhookSignal(token, action, price)
          /\ ret'.result # "rejected"
          /\ ret'.bot \in DOMAIN webhook_positions
          /\ \/ Normalize(action) = "buy" /\ webhook_positions[ret'.bot].side = "long"
             \/ Normalize(action) = "sell" /\ webhook_positions[ret'.bot].side = "short") =>
            /\ webhook_positions'[ret'.bot].entry_price =
                  webhook_positions[ret'.bot].entry_price
            /\ webhook_positions'[ret'.bot].size = webhook_positions[ret'.bot].size
            /\ bots'[ret'.bot].trade_history = bots[ret'.bot].trade_history]_vars

====
